---- MODULE Spec2Model ----
(***************************************************************************)
(* Sociora ledger core: the in-memory Storage Network registry             *)
(* (storage_network.py), the validation step and the mining pipeline       *)
(* (mining.py).  Each public operation of StorageNetwork is one action;    *)
(* validate_video_storage and mine_block read the registry and hand their  *)
(* result back through the variable ret.                                   *)
(*                                                                         *)
(* Amounts of coins are fixed-point integers counted in units, and        *)
(* round(x, 8) rounds to whole units.  In Spec the amounts are those of    *)
(* the default reward configuration, COIN units make one coin, and every   *)
(* amount that arises there is a whole number of units.  In SpecReward and *)
(* SpecSplit one unit is 10^-8 coin, the quantum of round(x, 8), and the   *)
(* amounts are small.  Percentages are fixed-point too: PCT units make one *)
(* percent.                                                                *)
(* The timestamps and measured durations of the storage records come from  *)
(* the clock and are read by no operation; the records leave them out.     *)
(* The list available_on_network is kept as the bag of its entries: the    *)
(* code reads its length, membership in it and how many entries pass a     *)
(* test, never the order of the entries.                                   *)
(*                                                                         *)
(* SpecReward and SpecSplit call the pure reward functions on bounded      *)
(* inputs; SpecTx follows one Transaction object (transaction.py) through  *)
(* hashing, lifecycle changes and serialization, in the variable tx.       *)
(* SpecMine runs one mine_block call stage by stage while other callers    *)
(* change the registry, and SpecStore runs two store_video_replica calls   *)
(* whose capacity checks and updates interleave; calls holds the local     *)
(* variables of the calls in flight, and is empty in the other             *)
(* specifications, where every call runs from its start to its end.        *)
(***************************************************************************)
EXTENDS Integers, Sequences, FiniteSets, Bags, TLC

VARIABLES videos, nodes, proofs, ret, tx, calls

vars == <<videos, nodes, proofs, ret, tx, calls>>
network == <<videos, nodes, proofs>>

(***************************************************************************)
(* Bounds of the model and the inputs the operations are called with.      *)
(***************************************************************************)
MaxCapacity == 2
MaxMinReplicas == 1

NodeIds == {"n1", "n2", "n3"}
Cids == {"c1"}
Capacities == {MaxCapacity}
Sizes == {1}
Durations == {600}
MinReplicas == 0..MaxMinReplicas
Miners == {"miner"}
Creators == {"creator"}
CreatorArgs == {"creator", "other"}
Uuids == {"u1", "u2"}
TxIds == {"t1"}
BlockNumbers == {1}
ZERO_HASH == "0000"

H264_720P == [format_name |-> "h264_720p", codec |-> "h.264"]
VP9_1080P == [format_name |-> "vp9_1080p", codec |-> "VP9"]
AV1_4K == [format_name |-> "av1_4k", codec |-> "AV1"]
ProfileLists == {<<>>, <<H264_720P, VP9_1080P, AV1_4K>>}

(***************************************************************************)
(* Enumerations.                                                           *)
(***************************************************************************)
StorageStatus == {"UNKNOWN", "PENDING", "STORED", "REPLICATED", "VERIFIED"}
TranscodingStatus == {"NOT_STARTED", "IN_PROGRESS", "COMPLETED", "FAILED"}

\* Position of a status in the order UNKNOWN < PENDING < STORED < REPLICATED < VERIFIED.
StatusRank(s) ==
    CASE s = "UNKNOWN" -> 0
      [] s = "PENDING" -> 1
      [] s = "STORED" -> 2
      [] s = "REPLICATED" -> 3
      [] s = "VERIFIED" -> 4

DEFAULT_REPLICATION_FACTOR == 3

(***************************************************************************)
(* Records.                                                                *)
(***************************************************************************)
StorageNode(node_id, address, region, storage_capacity, storage_used, reputation) ==
    [node_id |-> node_id, address |-> address, region |-> region,
     storage_capacity |-> storage_capacity, storage_used |-> storage_used,
     reputation |-> reputation, is_online |-> TRUE]

VideoMetadata(video_cid, creator_id, title, duration_seconds, original_size_bytes) ==
    [video_cid |-> video_cid, creator_id |-> creator_id, title |-> title,
     duration_seconds |-> duration_seconds,
     original_size_bytes |-> original_size_bytes,
     storage_status |-> "UNKNOWN", transcoding_status |-> "NOT_STARTED",
     available_on_network |-> EmptyBag, transcoded_profiles |-> <<>>,
     replication_factor |-> DEFAULT_REPLICATION_FACTOR]

\* The value of a field that holds None.
None == [none |-> TRUE]

\* m with key k bound to v (dict assignment m[k] = v).
Put(m, k, v) == [x \in DOMAIN m \cup {k} |-> IF x = k THEN v ELSE m[x]]

\* A list whose order is not read, as the bag of its entries: append,
\* len(), and the number of entries that belong to the set S.
ListAppend(b, e) == b (+) SetToBag({e})
ListLen(b) == BagCardinality(b)
CountIn(b, S) ==
    BagCardinality([e \in {x \in BagToSet(b) : x \in S} |-> CopiesIn(e, b)])

\* What an operation handed back: its name, its arguments, how it ended
\* (a returned boolean as "true"/"false", "returned" for a returned object,
\* or the name of the exception raised) and the returned objects.  again
\* tells a store_video_replica call that comes right after a
\* store_video_replica call on the same video and node.
Ret(op, cid, node, min, result, validation, proof, block) ==
    [op |-> op, cid |-> cid, node |-> node, min_replicas |-> min,
     result |-> result, validation |-> validation, proof |-> proof,
     block |-> block,
     again |-> /\ op = "store_video_replica"
               /\ ret.op = op
               /\ ret.cid = cid
               /\ ret.node = node
               /\ ret.min_replicas = min]

NoArg == "-"
Bool(b) == IF b THEN "true" ELSE "false"

(***************************************************************************)
(* StorageNetwork.__init__                                                  *)
(***************************************************************************)
Init ==
    /\ videos = << >>
    /\ nodes = << >>
    /\ proofs = << >>
    /\ ret = [op |-> "init", cid |-> NoArg, node |-> NoArg, min_replicas |-> 0,
              result |-> "returned", validation |-> None, proof |-> None,
              block |-> None, again |-> FALSE]
    /\ tx = None
    /\ calls = << >>

(***************************************************************************)
(* StorageNetwork.register_node                                            *)
(***************************************************************************)
register_node(node_id, miner_address, region, storage_capacity, reputation) ==
    /\ nodes' = Put(nodes, node_id,
                    StorageNode(node_id, miner_address, region,
                                storage_capacity, 0, reputation))
    /\ ret' = Ret("register_node", NoArg, node_id, 0, "returned", None, None, None)
    /\ UNCHANGED <<videos, proofs>>

(***************************************************************************)
(* StorageNetwork.upload_video                                             *)
(***************************************************************************)
upload_video(video_cid, creator_id, title, duration_seconds, size_bytes) ==
    /\ videos' = Put(videos, video_cid,
                     VideoMetadata(video_cid, creator_id, title,
                                   duration_seconds, size_bytes))
    /\ ret' = Ret("upload_video", video_cid, NoArg, 0, "returned", None, None, None)
    /\ UNCHANGED <<nodes, proofs>>

(***************************************************************************)
(* StorageNetwork.store_video_replica                                      *)
(***************************************************************************)
\* store_video_replica with a capacity check that forgets the size of the
\* video (storage_used > storage_capacity).
store_video_replica_check_without_size(video_cid, node_id) ==
    LET R(b) == Ret("store_video_replica", video_cid, node_id, 0, Bool(b),
                    None, None, None)
    IN
    IF video_cid \notin DOMAIN videos \/ node_id \notin DOMAIN nodes THEN
        ret' = R(FALSE) /\ UNCHANGED network
    ELSE
        LET video == videos[video_cid]
            node == nodes[node_id]
        IN
        IF node.storage_used > node.storage_capacity THEN
            ret' = R(FALSE) /\ UNCHANGED network
        ELSE
            LET listed == BagIn(node_id, video.available_on_network)
                avail == IF listed THEN video.available_on_network
                         ELSE ListAppend(video.available_on_network, node_id)
                used == IF listed THEN node.storage_used
                        ELSE node.storage_used + video.original_size_bytes
                status == IF ListLen(avail) >= video.replication_factor
                          THEN "REPLICATED" ELSE video.storage_status
            IN
            /\ videos' = [videos EXCEPT ![video_cid] =
                            [video EXCEPT !.available_on_network = avail,
                                          !.storage_status = status]]
            /\ nodes' = [nodes EXCEPT ![node_id].storage_used = used]
            /\ ret' = R(TRUE)
            /\ UNCHANGED proofs

\* store_video_replica without the test "node_id not in
\* video.available_on_network": every accepted call appends and counts.
store_video_replica_always_appends(video_cid, node_id) ==
    LET R(b) == Ret("store_video_replica", video_cid, node_id, 0, Bool(b),
                    None, None, None)
    IN
    IF video_cid \notin DOMAIN videos \/ node_id \notin DOMAIN nodes THEN
        ret' = R(FALSE) /\ UNCHANGED network
    ELSE
        LET video == videos[video_cid]
            node == nodes[node_id]
        IN
        IF node.storage_used + video.original_size_bytes > node.storage_capacity THEN
            ret' = R(FALSE) /\ UNCHANGED network
        ELSE
            LET avail == ListAppend(video.available_on_network, node_id)
                status == IF ListLen(avail) >= video.replication_factor
                          THEN "REPLICATED" ELSE video.storage_status
            IN
            /\ videos' = [videos EXCEPT ![video_cid] =
                            [video EXCEPT !.available_on_network = avail,
                                          !.storage_status = status]]
            /\ nodes' = [nodes EXCEPT ![node_id].storage_used =
                            node.storage_used + video.original_size_bytes]
            /\ ret' = R(TRUE)
            /\ UNCHANGED proofs

store_video_replica(video_cid, node_id) ==
    LET R(b) == Ret("store_video_replica", video_cid, node_id, 0, Bool(b),
                    None, None, None)
    IN
    IF video_cid \notin DOMAIN videos THEN
        ret' = R(FALSE) /\ UNCHANGED network
    ELSE IF node_id \notin DOMAIN nodes THEN
        ret' = R(FALSE) /\ UNCHANGED network
    ELSE
        LET video == videos[video_cid]
            node == nodes[node_id]
        IN
        IF node.storage_used + video.original_size_bytes > node.storage_capacity THEN
            ret' = R(FALSE) /\ UNCHANGED network
        ELSE
            LET listed == BagIn(node_id, video.available_on_network)
                avail == IF listed THEN video.available_on_network
                         ELSE ListAppend(video.available_on_network, node_id)
                used == IF listed THEN node.storage_used
                        ELSE node.storage_used + video.original_size_bytes
                status == IF ListLen(avail) >= video.replication_factor
                          THEN "REPLICATED" ELSE video.storage_status
            IN
            /\ videos' = [videos EXCEPT ![video_cid] =
                            [video EXCEPT !.available_on_network = avail,
                                          !.storage_status = status]]
            /\ nodes' = [nodes EXCEPT ![node_id].storage_used = used]
            /\ ret' = R(TRUE)
            /\ UNCHANGED proofs

(***************************************************************************)
(* StorageNetwork.transcode_video                                          *)
(***************************************************************************)
\* transcode_video without the guard on the cid: the lookup of an unknown
\* cid raises.
transcode_video_unguarded(video_cid, profiles) ==
    LET R(r) == Ret("transcode_video", video_cid, NoArg, 0, r,
                    None, None, None)
    IN
    IF video_cid \notin DOMAIN videos THEN
        ret' = R("KeyError") /\ UNCHANGED network
    ELSE
        /\ videos' = [videos EXCEPT ![video_cid] =
                        [@ EXCEPT !.transcoded_profiles = profiles,
                                  !.transcoding_status = "COMPLETED"]]
        /\ ret' = R("true")
        /\ UNCHANGED <<nodes, proofs>>

\* transcode_video that stores the profiles and leaves transcoding_status
\* as it is.
transcode_video_keeps_status(video_cid, profiles) ==
    LET R(b) == Ret("transcode_video", video_cid, NoArg, 0, Bool(b),
                    None, None, None)
    IN
    IF video_cid \notin DOMAIN videos THEN
        ret' = R(FALSE) /\ UNCHANGED network
    ELSE
        /\ videos' = [videos EXCEPT ![video_cid].transcoded_profiles = profiles]
        /\ ret' = R(TRUE)
        /\ UNCHANGED <<nodes, proofs>>

transcode_video(video_cid, profiles) ==
    LET R(b) == Ret("transcode_video", video_cid, NoArg, 0, Bool(b),
                    None, None, None)
    IN
    IF video_cid \notin DOMAIN videos THEN
        ret' = R(FALSE) /\ UNCHANGED network
    ELSE
        /\ videos' = [videos EXCEPT ![video_cid] =
                        [@ EXCEPT !.transcoded_profiles = profiles,
                                  !.transcoding_status = "COMPLETED"]]
        /\ ret' = R(TRUE)
        /\ UNCHANGED <<nodes, proofs>>

(***************************************************************************)
(* StorageNetwork.verify_video_storage                                     *)
(***************************************************************************)
\* verify_video_storage that counts every listed replica, online or not.
verify_video_storage_counts_offline(video_cid, min_replicas) ==
    LET R(r) == Ret("verify_video_storage", video_cid, NoArg, min_replicas, r,
                    None, None, None)
    IN
    IF video_cid \notin DOMAIN videos THEN
        ret' = R("false") /\ UNCHANGED network
    ELSE
        LET video == videos[video_cid] IN
        IF ListLen(video.available_on_network) < min_replicas THEN
            ret' = R("false") /\ UNCHANGED network
        ELSE IF video.transcoding_status # "COMPLETED" THEN
            ret' = R("false") /\ UNCHANGED network
        ELSE
            /\ videos' = [videos EXCEPT ![video_cid].storage_status = "VERIFIED"]
            /\ ret' = R("true")
            /\ UNCHANGED <<nodes, proofs>>

\* verify_video_storage that revokes the status when the replica check
\* fails (the video falls back to UNKNOWN).
verify_video_storage_revokes(video_cid, min_replicas) ==
    LET R(r) == Ret("verify_video_storage", video_cid, NoArg, min_replicas, r,
                    None, None, None)
    IN
    IF video_cid \notin DOMAIN videos THEN
        ret' = R("false") /\ UNCHANGED network
    ELSE
        LET video == videos[video_cid]
            available_nodes ==
                CountIn(video.available_on_network,
                        {n \in DOMAIN nodes : nodes[n].is_online})
        IN
        IF available_nodes < min_replicas THEN
            /\ videos' = [videos EXCEPT ![video_cid].storage_status = "UNKNOWN"]
            /\ ret' = R("false")
            /\ UNCHANGED <<nodes, proofs>>
        ELSE IF video.transcoding_status # "COMPLETED" THEN
            ret' = R("false") /\ UNCHANGED network
        ELSE
            /\ videos' = [videos EXCEPT ![video_cid].storage_status = "VERIFIED"]
            /\ ret' = R("true")
            /\ UNCHANGED <<nodes, proofs>>

verify_video_storage(video_cid, min_replicas) ==
    LET R(r) == Ret("verify_video_storage", video_cid, NoArg, min_replicas, r,
                    None, None, None)
    IN
    IF video_cid \notin DOMAIN videos THEN
        ret' = R("false") /\ UNCHANGED network
    ELSE
        LET video == videos[video_cid] IN
        IF \E n \in BagToSet(video.available_on_network) : n \notin DOMAIN nodes THEN
            \* self.nodes[n] on an unregistered id
            ret' = R("KeyError") /\ UNCHANGED network
        ELSE
            LET available_nodes ==
                    CountIn(video.available_on_network,
                            {n \in DOMAIN nodes : nodes[n].is_online})
            IN
            IF available_nodes < min_replicas THEN
                ret' = R("false") /\ UNCHANGED network
            ELSE IF video.transcoding_status # "COMPLETED" THEN
                ret' = R("false") /\ UNCHANGED network
            ELSE
                /\ videos' = [videos EXCEPT ![video_cid].storage_status = "VERIFIED"]
                /\ ret' = R("true")
                /\ UNCHANGED <<nodes, proofs>>

(***************************************************************************)
(* StorageNetwork.offline_node                                             *)
(***************************************************************************)
\* offline_node that flips the flag instead of clearing it.
offline_node_toggles(node_id) ==
    LET R(b) == Ret("offline_node", NoArg, node_id, 0, Bool(b), None, None, None)
    IN
    IF node_id \notin DOMAIN nodes THEN
        ret' = R(FALSE) /\ UNCHANGED network
    ELSE
        /\ nodes' = [nodes EXCEPT ![node_id].is_online = ~@]
        /\ ret' = R(TRUE)
        /\ UNCHANGED <<videos, proofs>>

\* offline_node that drops the node from the registry.
offline_node_unregisters(node_id) ==
    LET R(b) == Ret("offline_node", NoArg, node_id, 0, Bool(b), None, None, None)
    IN
    IF node_id \notin DOMAIN nodes THEN
        ret' = R(FALSE) /\ UNCHANGED network
    ELSE
        /\ nodes' = [n \in DOMAIN nodes \ {node_id} |-> nodes[n]]
        /\ ret' = R(TRUE)
        /\ UNCHANGED <<videos, proofs>>

offline_node(node_id) ==
    LET R(b) == Ret("offline_node", NoArg, node_id, 0, Bool(b), None, None, None)
    IN
    IF node_id \notin DOMAIN nodes THEN
        ret' = R(FALSE) /\ UNCHANGED network
    ELSE
        /\ nodes' = [nodes EXCEPT ![node_id].is_online = FALSE]
        /\ ret' = R(TRUE)
        /\ UNCHANGED <<videos, proofs>>

(***************************************************************************)
(* StorageNetwork.get_video_metadata, get_storage_nodes                    *)
(***************************************************************************)
get_video_metadata(video_cid) ==
    IF video_cid \in DOMAIN videos THEN videos[video_cid] ELSE None

get_storage_nodes == nodes

(***************************************************************************)
(* mining.validate_video_storage                                           *)
(***************************************************************************)
ValidationResult(is_valid, video_cid, validator_address, error_message, replicas_found, transcoding_complete, transcoding_formats) ==
    [is_valid |-> is_valid, video_cid |-> video_cid,
     validator_address |-> validator_address, error_message |-> error_message,
     replicas_found |-> replicas_found,
     transcoding_complete |-> transcoding_complete,
     transcoding_formats |-> transcoding_formats]

\* validate_video_storage without step 3, the transcoding check.
validate_video_storage_skips_transcoding(video_cid, validator_address, min_replicas) ==
    IF get_video_metadata(video_cid) = None THEN
        ValidationResult(FALSE, video_cid, validator_address, "not found",
                         0, FALSE, <<>>)
    ELSE
        LET video_metadata == get_video_metadata(video_cid)
            online_replicas ==
                CountIn(video_metadata.available_on_network,
                        {node_id \in DOMAIN get_storage_nodes :
                            get_storage_nodes[node_id].is_online})
            transcoding_formats ==
                [i \in DOMAIN video_metadata.transcoded_profiles |->
                    video_metadata.transcoded_profiles[i].format_name]
        IN
        IF online_replicas < min_replicas THEN
            ValidationResult(FALSE, video_cid, validator_address,
                             "Insufficient replicas", online_replicas, FALSE, <<>>)
        ELSE
            ValidationResult(TRUE, video_cid, validator_address, "",
                             online_replicas, TRUE, transcoding_formats)

\* validate_video_storage with the replica test written "<=".
validate_video_storage_off_by_one(video_cid, validator_address, min_replicas) ==
    IF get_video_metadata(video_cid) = None THEN
        ValidationResult(FALSE, video_cid, validator_address, "not found",
                         0, FALSE, <<>>)
    ELSE
        LET video_metadata == get_video_metadata(video_cid)
            online_replicas ==
                CountIn(video_metadata.available_on_network,
                        {node_id \in DOMAIN get_storage_nodes :
                            get_storage_nodes[node_id].is_online})
            transcoding_formats ==
                [i \in DOMAIN video_metadata.transcoded_profiles |->
                    video_metadata.transcoded_profiles[i].format_name]
        IN
        IF online_replicas <= min_replicas THEN
            ValidationResult(FALSE, video_cid, validator_address,
                             "Insufficient replicas", online_replicas, FALSE, <<>>)
        ELSE IF video_metadata.transcoded_profiles = <<>> THEN
            ValidationResult(FALSE, video_cid, validator_address,
                             "Video not transcoded", online_replicas, FALSE, <<>>)
        ELSE
            ValidationResult(TRUE, video_cid, validator_address, "",
                             online_replicas, TRUE, transcoding_formats)

\* validate_video_storage that counts every listed replica, online or not.
validate_video_storage_counts_offline(video_cid, validator_address, min_replicas) ==
    IF get_video_metadata(video_cid) = None THEN
        ValidationResult(FALSE, video_cid, validator_address, "not found",
                         0, FALSE, <<>>)
    ELSE
        LET video_metadata == get_video_metadata(video_cid)
            online_replicas == ListLen(video_metadata.available_on_network)
            transcoding_formats ==
                [i \in DOMAIN video_metadata.transcoded_profiles |->
                    video_metadata.transcoded_profiles[i].format_name]
        IN
        IF online_replicas < min_replicas THEN
            ValidationResult(FALSE, video_cid, validator_address,
                             "Insufficient replicas", online_replicas, FALSE, <<>>)
        ELSE IF video_metadata.transcoded_profiles = <<>> THEN
            ValidationResult(FALSE, video_cid, validator_address,
                             "Video not transcoded", online_replicas, FALSE, <<>>)
        ELSE
            ValidationResult(TRUE, video_cid, validator_address, "",
                             online_replicas, TRUE, transcoding_formats)

\* validate_video_storage that looks at the transcoding before it counts
\* the replicas.
validate_video_storage_transcoding_first(video_cid, validator_address, min_replicas) ==
    IF get_video_metadata(video_cid) = None THEN
        ValidationResult(FALSE, video_cid, validator_address, "not found",
                         0, FALSE, <<>>)
    ELSE
        LET video_metadata == get_video_metadata(video_cid)
            online_replicas ==
                CountIn(video_metadata.available_on_network,
                        {node_id \in DOMAIN get_storage_nodes :
                            get_storage_nodes[node_id].is_online})
            transcoding_formats ==
                [i \in DOMAIN video_metadata.transcoded_profiles |->
                    video_metadata.transcoded_profiles[i].format_name]
        IN
        IF video_metadata.transcoded_profiles = <<>> THEN
            ValidationResult(FALSE, video_cid, validator_address,
                             "Video not transcoded", online_replicas, FALSE, <<>>)
        ELSE IF online_replicas < min_replicas THEN
            ValidationResult(FALSE, video_cid, validator_address,
                             "Insufficient replicas", online_replicas, FALSE, <<>>)
        ELSE
            ValidationResult(TRUE, video_cid, validator_address, "",
                             online_replicas, TRUE, transcoding_formats)

\* validate_video_storage that also asks for a fully replicated video:
\* as many replicas as its replication_factor.
validate_video_storage_requires_replication(video_cid, validator_address, min_replicas) ==
    IF get_video_metadata(video_cid) = None THEN
        ValidationResult(FALSE, video_cid, validator_address, "not found",
                         0, FALSE, <<>>)
    ELSE
        LET video_metadata == get_video_metadata(video_cid)
            online_replicas ==
                CountIn(video_metadata.available_on_network,
                        {node_id \in DOMAIN get_storage_nodes :
                            get_storage_nodes[node_id].is_online})
            transcoding_formats ==
                [i \in DOMAIN video_metadata.transcoded_profiles |->
                    video_metadata.transcoded_profiles[i].format_name]
        IN
        IF \/ online_replicas < min_replicas
           \/ ListLen(video_metadata.available_on_network) < video_metadata.replication_factor
        THEN
            ValidationResult(FALSE, video_cid, validator_address,
                             "Insufficient replicas", online_replicas, FALSE, <<>>)
        ELSE IF video_metadata.transcoded_profiles = <<>> THEN
            ValidationResult(FALSE, video_cid, validator_address,
                             "Video not transcoded", online_replicas, FALSE, <<>>)
        ELSE
            ValidationResult(TRUE, video_cid, validator_address, "",
                             online_replicas, TRUE, transcoding_formats)

validate_video_storage(video_cid, validator_address, min_replicas) ==
    IF get_video_metadata(video_cid) = None THEN
        ValidationResult(FALSE, video_cid, validator_address, "not found",
                         0, FALSE, <<>>)
    ELSE
        LET video_metadata == get_video_metadata(video_cid)
            online_replicas ==
                CountIn(video_metadata.available_on_network,
                        {node_id \in DOMAIN get_storage_nodes :
                            get_storage_nodes[node_id].is_online})
            transcoding_formats ==
                [i \in DOMAIN video_metadata.transcoded_profiles |->
                    video_metadata.transcoded_profiles[i].format_name]
        IN
        IF online_replicas < min_replicas THEN
            ValidationResult(FALSE, video_cid, validator_address,
                             "Insufficient replicas", online_replicas, FALSE, <<>>)
        ELSE IF video_metadata.transcoded_profiles = <<>> THEN
            ValidationResult(FALSE, video_cid, validator_address,
                             "Video not transcoded", online_replicas, FALSE, <<>>)
        ELSE
            ValidationResult(TRUE, video_cid, validator_address, "",
                             online_replicas, TRUE, transcoding_formats)

(***************************************************************************)
(* mining.DynamicRewardConfig, calculate_dynamic_reward                    *)
(***************************************************************************)
COIN == 10000

\* Units of one percent: percentages are counted in steps of 0.005.
PCT == 200

DynamicRewardConfig ==
    [base_subsidy |-> 50 * COIN, reward_per_second |-> COIN \div 10,
     reward_per_profile |-> 5 * COIN, reward_per_replica |-> 2 * COIN,
     creator_percentage |-> 40 * PCT, miner_percentage |-> 35 * PCT,
     viewer_percentage |-> 15 * PCT, platform_percentage |-> 10 * PCT,
     max_reward_per_block |-> 1000 * COIN, min_reward_per_block |-> 10 * COIN]

Min(a, b) == IF a < b THEN a ELSE b
Max(a, b) == IF a > b THEN a ELSE b

\* round(a * b / d, 8) of an amount in units, d > 0: the nearest whole
\* number of units, a tie going to the even one.  The quotient is taken in
\* two parts so that a * b is never formed.
round8(a, b, d) ==
    LET q == a \div d
        n == (a % d) * b
        base == q * b + (n \div d)
        rem == n % d
    IN IF 2 * rem > d \/ (2 * rem = d /\ base % 2 = 1) THEN base + 1
       ELSE base

\* calculate_dynamic_reward without the cap at max_reward_per_block.
calculate_dynamic_reward_uncapped(video_metadata, validation_result, config) ==
    LET length_reward == video_metadata.duration_seconds * config.reward_per_second
        num_profiles == Len(validation_result.transcoding_formats)
        profile_reward == num_profiles * config.reward_per_profile
        replicas_bonus == Max(0, validation_result.replicas_found - 1)
        replica_reward == replicas_bonus * config.reward_per_replica
        total_reward == config.base_subsidy + length_reward + profile_reward
                        + replica_reward
        floored == Max(total_reward, config.min_reward_per_block)
    IN round8(floored, 1, 1)

\* calculate_dynamic_reward that pays the replica bonus for every replica,
\* the first one included.
calculate_dynamic_reward_pays_first_replica(video_metadata, validation_result, config) ==
    LET length_reward == video_metadata.duration_seconds * config.reward_per_second
        num_profiles == Len(validation_result.transcoding_formats)
        profile_reward == num_profiles * config.reward_per_profile
        replicas_bonus == validation_result.replicas_found
        replica_reward == replicas_bonus * config.reward_per_replica
        total_reward == config.base_subsidy + length_reward + profile_reward
                        + replica_reward
        capped == Min(total_reward, config.max_reward_per_block)
        floored == Max(capped, config.min_reward_per_block)
    IN round8(floored, 1, 1)

calculate_dynamic_reward(video_metadata, validation_result, config) ==
    LET length_reward == video_metadata.duration_seconds * config.reward_per_second
        num_profiles == Len(validation_result.transcoding_formats)
        profile_reward == num_profiles * config.reward_per_profile
        replicas_bonus == Max(0, validation_result.replicas_found - 1)
        replica_reward == replicas_bonus * config.reward_per_replica
        total_reward == config.base_subsidy + length_reward + profile_reward
                        + replica_reward
        capped == Min(total_reward, config.max_reward_per_block)
        floored == Max(capped, config.min_reward_per_block)
    IN round8(floored, 1, 1)

(***************************************************************************)
(* mining.create_storage_proof                                             *)
(***************************************************************************)
\* SHA-256 of a string built from the given parts, kept symbolic.
Sha256(parts) == <<"sha256", parts>>

\* create_storage_proof that leaves storage_replication at the default of
\* the StorageProof class, 1.
create_storage_proof_default_replication(video_cid, miner_address, validation_result, video_metadata, proof_nonce) ==
    [video_cid |-> video_cid,
     miner_address |-> miner_address,
     storage_nodes |-> <<>>,
     transcoding_profiles |-> video_metadata.transcoded_profiles,
     proof_nonce |-> proof_nonce,
     proof_hash |-> Sha256(<<video_cid, miner_address, proof_nonce>>),
     is_valid |-> validation_result.is_valid,
     storage_replication |-> 1,
     storage_data |->
        [video_cid |-> video_cid,
         video_length |-> video_metadata.duration_seconds,
         video_size |-> video_metadata.original_size_bytes,
         replicas |-> validation_result.replicas_found,
         profiles |-> validation_result.transcoding_formats]]

create_storage_proof(video_cid, miner_address, validation_result, video_metadata, proof_nonce) ==
    [video_cid |-> video_cid,
     miner_address |-> miner_address,
     storage_nodes |-> <<>>,
     transcoding_profiles |-> video_metadata.transcoded_profiles,
     proof_nonce |-> proof_nonce,
     proof_hash |-> Sha256(<<video_cid, miner_address, proof_nonce>>),
     is_valid |-> validation_result.is_valid,
     storage_replication |-> validation_result.replicas_found,
     storage_data |->
        [video_cid |-> video_cid,
         video_length |-> video_metadata.duration_seconds,
         video_size |-> video_metadata.original_size_bytes,
         replicas |-> validation_result.replicas_found,
         profiles |-> validation_result.transcoding_formats]]

\* StorageProof.to_dict
StorageProof_to_dict(proof) ==
    [video_cid |-> proof.video_cid,
     miner_address |-> proof.miner_address,
     storage_nodes |-> Len(proof.storage_nodes),
     transcoding_profiles |-> Len(proof.transcoding_profiles),
     proof_hash |-> proof.proof_hash,
     is_valid |-> proof.is_valid,
     storage_replication |-> proof.storage_replication]

(***************************************************************************)
(* utils.TokenomicsUtils.calculate_reward_split                            *)
(***************************************************************************)
Abs(x) == IF x < 0 THEN -x ELSE x

\* A raised exception, as a value.
Raise(name) == [raised |-> name]

\* The tolerance 0.01 on the sum of the percentages.
PERCENT_TOLERANCE == PCT \div 100

\* calculate_reward_split with the tolerance 0.02 on the sum.
calculate_reward_split_loose(total_reward, creator_percentage, miner_percentage, viewer_percentage, platform_percentage) ==
    LET total_percent == creator_percentage + miner_percentage
                         + viewer_percentage + platform_percentage
    IN
    IF Abs(total_percent - 100 * PCT) > 2 * PERCENT_TOLERANCE THEN
        Raise("ValueError")
    ELSE [creator |-> round8(total_reward, creator_percentage, 100 * PCT),
          miner |-> round8(total_reward, miner_percentage, 100 * PCT),
          viewer |-> round8(total_reward, viewer_percentage, 100 * PCT),
          platform |-> round8(total_reward, platform_percentage, 100 * PCT)]

calculate_reward_split(total_reward, creator_percentage, miner_percentage, viewer_percentage, platform_percentage) ==
    LET total_percent == creator_percentage + miner_percentage
                         + viewer_percentage + platform_percentage
    IN
    IF Abs(total_percent - 100 * PCT) > PERCENT_TOLERANCE THEN
        Raise("ValueError")
    ELSE [creator |-> round8(total_reward, creator_percentage, 100 * PCT),
          miner |-> round8(total_reward, miner_percentage, 100 * PCT),
          viewer |-> round8(total_reward, viewer_percentage, 100 * PCT),
          platform |-> round8(total_reward, platform_percentage, 100 * PCT)]

(***************************************************************************)
(* utils.TokenomicsUtils.validate_percentages                              *)
(***************************************************************************)
validate_percentages(creator, miner, viewer, platform) ==
    IF \E p \in {creator, miner, viewer, platform} : p < 0 THEN FALSE
    ELSE LET total == creator + miner + viewer + platform
         IN Abs(total - 100 * PCT) <= PERCENT_TOLERANCE

(***************************************************************************)
(* transaction.Transaction                                                 *)
(***************************************************************************)
\* An enumeration: each member has a name and a value.
Enum(names) == {[name |-> n, value |-> n] : n \in names}
Member(E, name) == CHOOSE m \in E : m.name = name

TransactionType ==
    Enum({"VIDEO_UPLOAD", "INVESTMENT", "DISTRIBUTION", "STORAGE_PROOF",
          "INTEREST_PAYOUT", "WITHDRAWAL", "PLATFORM_FEE"})
TransactionStatus == Enum({"PENDING", "CONFIRMED", "FINALIZED", "FAILED"})

\* An Optional[str] or Optional[int] field of a transaction: Python's None
\* is the empty tuple, a value v is the tuple of v alone.
NoValue == << >>
Some(v) == <<v>>

\* The constructor; timestamp is the one clock reading the model gives
\* every transaction.
Transaction(tx_id, tx_type, sender_public_key_hash, receiver_public_key_hash, creator_id, amount, video_hash, video_length, video_size, storage_proof, storage_proof_signature, nonce, gas_limit) ==
    [tx_id |-> tx_id, timestamp |-> "2026-01-01T00:00:00Z",
     tx_type |-> tx_type,
     sender_public_key_hash |-> sender_public_key_hash,
     receiver_public_key_hash |-> receiver_public_key_hash,
     creator_id |-> creator_id, amount |-> amount, currency |-> "SOCIORA",
     video_hash |-> video_hash, video_length |-> video_length,
     video_size |-> video_size, storage_proof |-> storage_proof,
     storage_proof_signature |-> storage_proof_signature,
     nonce |-> nonce, gas_price |-> COIN \div 1000, gas_limit |-> gas_limit,
     status |-> Member(TransactionStatus, "PENDING"),
     block_hash |-> NoValue, block_number |-> NoValue,
     metadata |-> << >>, _tx_hash |-> NoValue]

\* utils.CryptoUtils.generate_transaction_hash: SHA-256 of the dictionary
\* written as JSON with sorted keys.
generate_transaction_hash(transaction_dict) == Sha256(transaction_dict)

\* Transaction.compute_tx_hash: the object after the call; the hash it
\* returns is the _tx_hash of that object.
compute_tx_hash(self) ==
    LET tx_dict == [f \in DOMAIN self \ {"_tx_hash", "status"} |->
                       IF f = "tx_type" THEN self.tx_type.value ELSE self[f]]
    IN [self EXCEPT !._tx_hash = generate_transaction_hash(tx_dict)]

\* Transaction.tx_hash (property): the object after the access; the value
\* read is the _tx_hash of that object.
tx_hash(self) ==
    IF self._tx_hash = NoValue THEN compute_tx_hash(self) ELSE self

\* Transaction.to_dict
to_dict(self, include_hash) ==
    LET keys == (DOMAIN self \ {"_tx_hash"})
                \cup (IF include_hash THEN {"tx_hash"} ELSE {})
    IN [f \in keys |->
          CASE f = "tx_type" -> self.tx_type.value
            [] f = "status" -> self.status.value
            [] f = "tx_hash" -> tx_hash(self)._tx_hash
            [] OTHER -> self[f]]

\* Transaction.from_dict that takes an unknown status tag for PENDING.
from_dict_defaults_status(data) ==
    LET d == [f \in DOMAIN data \ {"tx_hash"} |-> data[f]] IN
    IF \A m \in TransactionType : m.name # d.tx_type THEN Raise("KeyError")
    ELSE [f \in DOMAIN d \cup {"_tx_hash"} |->
            CASE f = "tx_type" -> Member(TransactionType, d.tx_type)
              [] f = "status" ->
                    IF \A m \in TransactionStatus : m.name # d.status
                    THEN Member(TransactionStatus, "PENDING")
                    ELSE Member(TransactionStatus, d.status)
              [] f = "_tx_hash" -> NoValue
              [] OTHER -> d[f]]

\* Transaction.from_dict: the Transaction built from the dictionary, or the
\* KeyError of the enumeration lookup.
from_dict(data) ==
    LET d == [f \in DOMAIN data \ {"tx_hash"} |-> data[f]] IN
    IF \A m \in TransactionType : m.name # d.tx_type THEN Raise("KeyError")
    ELSE IF \A m \in TransactionStatus : m.name # d.status THEN
        Raise("KeyError")
    ELSE [f \in DOMAIN d \cup {"_tx_hash"} |->
            CASE f = "tx_type" -> Member(TransactionType, d.tx_type)
              [] f = "status" -> Member(TransactionStatus, d.status)
              [] f = "_tx_hash" -> NoValue
              [] OTHER -> d[f]]

(***************************************************************************)
(* block.Block                                                             *)
(***************************************************************************)
Block(block_number, miner_address, previous_hash, transactions, difficulty) ==
    [block_number |-> block_number, miner_address |-> miner_address,
     previous_hash |-> previous_hash, transactions |-> transactions,
     difficulty |-> difficulty, video_proofs |-> << >>,
     metadata |-> [storage_proof |-> None],
     block_reward |-> None, block_hash |-> None]

Block_add_storage_proof(block, video_cid, signature) ==
    [block EXCEPT !.video_proofs = Put(@, video_cid, signature),
                  !.block_hash = None]

RECURSIVE SumAmounts(_)
SumAmounts(txs) ==
    IF txs = <<>> THEN 0 ELSE Head(txs).amount + SumAmounts(Tail(txs))

Beneficiary(role, address, percentage, amount) ==
    [role |-> role, address |-> address, percentage |-> percentage,
     amount |-> amount]

Block_generate_reward(block, base_subsidy, creator_address, creator_percentage, miner_percentage, viewer_percentage, platform_percentage, viewer_address, platform_address) ==
    LET fee_reward == SumAmounts(block.transactions)
        total_reward == base_subsidy + fee_reward
        split == calculate_reward_split(total_reward, creator_percentage,
                                        miner_percentage, viewer_percentage,
                                        platform_percentage)
    IN
    IF split = Raise("ValueError") THEN block
    ELSE [block EXCEPT
            !.block_reward =
                [base_subsidy |-> base_subsidy, fee_reward |-> fee_reward,
                 total_reward |-> total_reward,
                 beneficiaries |->
                    << Beneficiary("creator", creator_address,
                                   creator_percentage, split.creator),
                       Beneficiary("miner", block.miner_address,
                                   miner_percentage, split.miner),
                       Beneficiary("viewer", viewer_address,
                                   viewer_percentage, split.viewer),
                       Beneficiary("platform", platform_address,
                                   platform_percentage, split.platform) >>],
            !.block_hash = None]

Block_compute_block_hash(block) ==
    [block EXCEPT !.block_hash =
        Sha256(<<block.block_number, block.miner_address, block.previous_hash,
                 block.transactions, block.video_proofs, block.metadata,
                 block.block_reward>>)]

(***************************************************************************)
(* utils.CryptoUtils.hash_public_key                                       *)
(***************************************************************************)
hash_public_key(public_key) == Sha256(<<public_key>>)

(***************************************************************************)
(* mining.mine_block                                                       *)
(***************************************************************************)
PLATFORM_ADDRESS == "0000000000000000000000000000000000000000000000000000000000000001"

\* How a mining attempt ends: outcome is "returned" with the triple
\* (block, proof, validation), or the exception raised with no triple.
MineResult(outcome, block, proof, validation) ==
    [outcome |-> outcome, block |-> block, proof |-> proof,
     validation |-> validation]

MinePipeline(block_number, miner_address, previous_block_hash, video_cid, creator_id, pending_transactions, reward_config, difficulty, proof_nonce, tx_id) ==
    LET validation_result ==
            validate_video_storage(video_cid, miner_address, 1)
    IN
    IF ~validation_result.is_valid THEN
        MineResult("ValidationError", None, None, None)
    ELSE
    LET video_metadata == get_video_metadata(video_cid) IN
    IF video_metadata = None THEN
        MineResult("MiningError", None, None, None)
    ELSE
    LET storage_proof ==
            create_storage_proof(video_cid, miner_address, validation_result,
                                 video_metadata, proof_nonce)
        block_reward_amount ==
            calculate_dynamic_reward(video_metadata, validation_result,
                                     reward_config)
        storage_proof_tx ==
            Transaction(tx_id, Member(TransactionType, "STORAGE_PROOF"),
                        miner_address, creator_id,
                        creator_id, 0, video_cid,
                        video_metadata.duration_seconds,
                        video_metadata.original_size_bytes,
                        storage_proof.proof_hash,
                        hash_public_key(miner_address), 1, 100000)
        all_transactions == <<storage_proof_tx>> \o pending_transactions
        block0 == Block(block_number, miner_address, previous_block_hash,
                        all_transactions, difficulty)
        block1 == Block_add_storage_proof(block0, video_cid,
                                          storage_proof.proof_hash)
        block2 == [block1 EXCEPT !.metadata.storage_proof =
                                    StorageProof_to_dict(storage_proof)]
        block3 == Block_generate_reward(
                      block2, block_reward_amount, creator_id,
                      reward_config.creator_percentage,
                      reward_config.miner_percentage,
                      reward_config.viewer_percentage,
                      reward_config.platform_percentage,
                      miner_address, PLATFORM_ADDRESS)
    IN
    IF block3.block_reward = None THEN
        MineResult("ValueError", None, None, None)
    ELSE
        MineResult("returned", Block_compute_block_hash(block3), storage_proof,
                   validation_result)

\* One call of mine_block: the pipeline runs to its end on the registry as
\* it is, the caller gets the triple or the exception.
\* mine_block that files the attempt in the registry of proofs before it
\* validates.
mine_block_files_attempt(block_number, miner_address, previous_block_hash, video_cid, creator_id, pending_transactions, reward_config, difficulty, proof_nonce, tx_id) ==
    LET r == MinePipeline(block_number, miner_address, previous_block_hash,
                          video_cid, creator_id, pending_transactions,
                          reward_config, difficulty, proof_nonce, tx_id)
    IN
    /\ proofs' = Put(proofs, video_cid, miner_address)
    /\ ret' = Ret("mine_block", video_cid, NoArg, 1, r.outcome, r.validation,
                  r.proof, r.block)
    /\ UNCHANGED <<videos, nodes>>

\* mine_block that marks the video it mined VERIFIED in the registry.
mine_block_marks_verified(block_number, miner_address, previous_block_hash, video_cid, creator_id, pending_transactions, reward_config, difficulty, proof_nonce, tx_id) ==
    LET r == MinePipeline(block_number, miner_address, previous_block_hash,
                          video_cid, creator_id, pending_transactions,
                          reward_config, difficulty, proof_nonce, tx_id)
    IN
    /\ videos' = IF r.outcome = "returned"
                 THEN [videos EXCEPT ![video_cid].storage_status = "VERIFIED"]
                 ELSE videos
    /\ ret' = Ret("mine_block", video_cid, NoArg, 1, r.outcome, r.validation,
                  r.proof, r.block)
    /\ UNCHANGED <<nodes, proofs>>

mine_block(block_number, miner_address, previous_block_hash, video_cid, creator_id, pending_transactions, reward_config, difficulty, proof_nonce, tx_id) ==
    LET r == MinePipeline(block_number, miner_address, previous_block_hash,
                          video_cid, creator_id, pending_transactions,
                          reward_config, difficulty, proof_nonce, tx_id)
    IN
    /\ ret' = Ret("mine_block", video_cid, NoArg, 1, r.outcome, r.validation,
                  r.proof, r.block)
    /\ UNCHANGED network

(***************************************************************************)
(* The operations, with their inputs.                                      *)
(***************************************************************************)
RegisterNode ==
    \E n \in NodeIds, a \in Miners, c \in Capacities :
        register_node(n, a, "us-west", c, 80) /\ UNCHANGED <<tx, calls>>

UploadVideo ==
    \E c \in Cids, cr \in Creators, d \in Durations, s \in Sizes :
        upload_video(c, cr, "title", d, s) /\ UNCHANGED <<tx, calls>>

StoreVideoReplica ==
    \E c \in Cids, n \in NodeIds :
        store_video_replica(c, n) /\ UNCHANGED <<tx, calls>>

TranscodeVideo ==
    \E c \in Cids, p \in ProfileLists :
        transcode_video(c, p) /\ UNCHANGED <<tx, calls>>

VerifyVideoStorage ==
    \E c \in Cids, m \in MinReplicas :
        verify_video_storage(c, m) /\ UNCHANGED <<tx, calls>>

OfflineNode ==
    \E n \in NodeIds : offline_node(n) /\ UNCHANGED <<tx, calls>>

\* A validation step that records its verdict in the registry: a video it
\* finds valid is marked VERIFIED.
ValidateVideoStorage_marks_verified ==
    \E c \in Cids, v \in Miners, m \in MinReplicas :
        LET result == validate_video_storage(c, v, m) IN
        /\ ret' = Ret("validate_video_storage", c, NoArg, m, "returned",
                      result, None, None)
        /\ videos' = IF result.is_valid
                     THEN [videos EXCEPT ![c].storage_status = "VERIFIED"]
                     ELSE videos
        /\ UNCHANGED <<nodes, proofs, tx, calls>>

\* A caller runs the validation step on its own.
ValidateVideoStorage ==
    \E c \in Cids, v \in Miners, m \in MinReplicas :
        /\ ret' = Ret("validate_video_storage", c, NoArg, m, "returned",
                      validate_video_storage(c, v, m), None, None)
        /\ UNCHANGED network
        /\ UNCHANGED <<tx, calls>>

\* A miner runs one mining attempt.
MineBlock ==
    \E c \in Cids, m \in Miners, cr \in CreatorArgs, b \in BlockNumbers,
       u \in Uuids, t \in TxIds :
        /\ mine_block(b, m, ZERO_HASH, c, cr, <<>>, DynamicRewardConfig, 1,
                      u, t)
        /\ UNCHANGED <<tx, calls>>

Next ==
    \/ RegisterNode
    \/ UploadVideo
    \/ StoreVideoReplica
    \/ TranscodeVideo
    \/ VerifyVideoStorage
    \/ OfflineNode
    \/ ValidateVideoStorage
    \/ MineBlock

Spec == Init /\ [][Next]_vars

(***************************************************************************)
(* The reward functions on their own: calculate_dynamic_reward,            *)
(* calculate_reward_split and validate_percentages are called on inputs    *)
(* from bounded sets and hand their result back through ret.  One unit of  *)
(* amount is 10^-8 coin here.                                              *)
(***************************************************************************)
RewardDurations == {0, 7, 600}
RewardProfileCounts == {0, 1, 3}
RewardReplicaCounts == {0, 1, 3}

\* Configurations of weights and clamp bounds; the bounds come in either
\* order.
RewardConfigs ==
    {[DynamicRewardConfig EXCEPT !.base_subsidy = b, !.reward_per_second = s,
                                 !.reward_per_profile = 5,
                                 !.reward_per_replica = 2,
                                 !.min_reward_per_block = lo,
                                 !.max_reward_per_block = hi] :
        b \in {0, 50}, s \in {-1, 0, 1}, lo \in {10, 60}, hi \in {40, 700}}

\* Totals to split: 10000000 units are 0.1 coin.
SplitTotals == {0, 1, 3, 33, 10000000}
\* -10, 35, 39.995, 40, 40.005 and 40.02 percent.
CreatorPercentages == {-10 * PCT, 35 * PCT, 40 * PCT - 1, 40 * PCT, 40 * PCT + 1, 40 * PCT + 4}
MinerPercentages == {35 * PCT, 60 * PCT}
ViewerPercentages == {15 * PCT, 30 * PCT}
PlatformPercentages == {10 * PCT, 20 * PCT}

InitReward ==
    /\ videos = << >>
    /\ nodes = << >>
    /\ proofs = << >>
    /\ tx = None
    /\ calls = << >>
    /\ ret = [op |-> "init"]

CalculateDynamicReward ==
    \E d \in RewardDurations, p \in RewardProfileCounts,
       r \in RewardReplicaCounts, config \in RewardConfigs :
        LET video_metadata == VideoMetadata("c1", "creator", "title", d, 1)
            validation_result ==
                ValidationResult(TRUE, "c1", "miner", "", r, p > 0,
                                 [i \in 1..p |-> "format"])
        IN
        /\ ret' = [op |-> "calculate_dynamic_reward",
                   video_metadata |-> video_metadata,
                   validation_result |-> validation_result,
                   config |-> config,
                   result |-> calculate_dynamic_reward(
                                  video_metadata, validation_result, config)]
        /\ UNCHANGED <<network, tx, calls>>

CalculateRewardSplit ==
    \E t \in SplitTotals, c \in CreatorPercentages, m \in MinerPercentages,
       v \in ViewerPercentages, p \in PlatformPercentages :
        /\ ret' = [op |-> "calculate_reward_split", total_reward |-> t,
                   creator_percentage |-> c, miner_percentage |-> m,
                   viewer_percentage |-> v, platform_percentage |-> p,
                   result |-> calculate_reward_split(t, c, m, v, p)]
        /\ UNCHANGED <<network, tx, calls>>

ValidatePercentages ==
    \E c \in CreatorPercentages, m \in MinerPercentages,
       v \in ViewerPercentages, p \in PlatformPercentages :
        /\ ret' = [op |-> "validate_percentages",
                   creator_percentage |-> c, miner_percentage |-> m,
                   viewer_percentage |-> v, platform_percentage |-> p,
                   result |-> Bool(validate_percentages(c, m, v, p))]
        /\ UNCHANGED <<network, tx, calls>>

NextReward ==
    \/ CalculateDynamicReward
    \/ CalculateRewardSplit
    \/ ValidatePercentages

SpecReward == InitReward /\ [][NextReward]_vars

(***************************************************************************)
(* One Transaction object, tx: its hash is computed and read, its          *)
(* lifecycle fields are assigned, it is serialized and rebuilt, and        *)
(* dictionaries with arbitrary tags are handed to from_dict.               *)
(***************************************************************************)
TxTypes == {"VIDEO_UPLOAD", "STORAGE_PROOF"}
TxAmounts == {0, 5 * COIN}
BlockHashes == {"bh1"}
TypeTags == {"VIDEO_UPLOAD", "PLATFORM_FEE", "BOGUS", "video_upload"}
StatusTags == {"PENDING", "FINALIZED", "pending", "DONE"}

InitTx ==
    /\ videos = << >>
    /\ nodes = << >>
    /\ proofs = << >>
    /\ ret = [op |-> "init"]
    /\ calls = << >>
    /\ \E t \in TxTypes, a \in TxAmounts :
          tx = Transaction("t1", Member(TransactionType, t), "sender",
                           "receiver", "creator", a, "cid", 600, 1, NoValue,
                           NoValue, 1, 21000)

ComputeTxHash ==
    /\ tx' = compute_tx_hash(tx)
    /\ ret' = [op |-> "compute_tx_hash", result |-> tx'._tx_hash]
    /\ UNCHANGED <<network, calls>>

TxHash ==
    /\ tx' = tx_hash(tx)
    /\ ret' = [op |-> "tx_hash", result |-> tx'._tx_hash]
    /\ UNCHANGED <<network, calls>>

\* The lifecycle fields are plain attributes; the code that confirms a
\* transaction assigns them.
SetStatus ==
    \E s \in TransactionStatus :
        /\ tx' = [tx EXCEPT !.status = s]
        /\ ret' = [op |-> "set_status"]
        /\ UNCHANGED <<network, calls>>

SetBlockHash ==
    \E h \in BlockHashes :
        /\ tx' = [tx EXCEPT !.block_hash = Some(h)]
        /\ ret' = [op |-> "set_block_hash"]
        /\ UNCHANGED <<network, calls>>

SetBlockNumber ==
    \E n \in BlockNumbers :
        /\ tx' = [tx EXCEPT !.block_number = Some(n)]
        /\ ret' = [op |-> "set_block_number"]
        /\ UNCHANGED <<network, calls>>

\* The payload fields are plain attributes too: the dataclass is not
\* frozen.
SetAmount ==
    \E a \in TxAmounts :
        /\ tx' = [tx EXCEPT !.amount = a]
        /\ ret' = [op |-> "set_amount"]
        /\ UNCHANGED <<network, calls>>

\* Transaction.from_dict(tx.to_dict(include_hash=True)); to_dict reads
\* tx.tx_hash, which fills the cache of tx.
RoundTrip ==
    LET payload == to_dict(tx, TRUE) IN
    /\ tx' = tx_hash(tx)
    /\ ret' = [op |-> "round_trip", payload |-> payload,
               result |-> from_dict(payload)]
    /\ UNCHANGED <<network, calls>>

\* from_dict is handed a dictionary whose tags are arbitrary strings.
FromDict ==
    \E t \in TypeTags, s \in StatusTags, include_hash \in BOOLEAN :
        LET payload == [to_dict(tx, include_hash) EXCEPT !.tx_type = t,
                                                        !.status = s]
        IN
        /\ tx' = IF include_hash THEN tx_hash(tx) ELSE tx
        /\ ret' = [op |-> "from_dict", payload |-> payload,
                   result |-> from_dict(payload)]
        /\ UNCHANGED <<network, calls>>

NextTx ==
    \/ ComputeTxHash
    \/ TxHash
    \/ SetStatus
    \/ SetBlockHash
    \/ SetBlockNumber
    \/ SetAmount
    \/ RoundTrip
    \/ FromDict

SpecTx == InitTx /\ [][NextTx]_vars

(***************************************************************************)
(* Two callers run store_video_replica on one registry at the same time.   *)
(* A call is two steps: the lookups and the capacity check, then the       *)
(* update.  The registry holds two nodes of capacity 1 and two videos of   *)
(* size 1, registered and uploaded before the callers start.               *)
(***************************************************************************)
Callers == {"A", "B"}
StoreNodes == {"n1", "n2"}
StoreCids == {"c1", "c2"}
Idle == [pc |-> "idle"]

InitStore ==
    /\ videos = [c \in StoreCids |->
                    VideoMetadata(c, "creator", "title", 600, 1)]
    /\ nodes = [n \in StoreNodes |->
                    StorageNode(n, "miner", "us-west", 1, 0, 80)]
    /\ proofs = << >>
    /\ tx = None
    /\ calls = [t \in Callers |-> Idle]
    /\ ret = [op |-> "init", cid |-> NoArg, node |-> NoArg, min_replicas |-> 0,
              result |-> "returned", validation |-> None, proof |-> None,
              block |-> None, again |-> FALSE]

\* store_video_replica up to and including its capacity check: the call
\* returns false, or goes on to its update.
store_video_replica_check(t, video_cid, node_id) ==
    LET R(b) == Ret("store_video_replica", video_cid, node_id, 0, Bool(b),
                    None, None, None)
    IN
    /\ calls[t].pc = "idle"
    /\ IF video_cid \notin DOMAIN videos THEN
           ret' = R(FALSE) /\ UNCHANGED calls
       ELSE IF node_id \notin DOMAIN nodes THEN
           ret' = R(FALSE) /\ UNCHANGED calls
       ELSE IF nodes[node_id].storage_used + videos[video_cid].original_size_bytes > nodes[node_id].storage_capacity THEN
           ret' = R(FALSE) /\ UNCHANGED calls
       ELSE
           /\ calls' = [calls EXCEPT ![t] = [pc |-> "update",
                                             video_cid |-> video_cid,
                                             node_id |-> node_id]]
           /\ UNCHANGED ret
    /\ UNCHANGED <<network, tx>>

\* The rest of store_video_replica: the replica is listed and charged to
\* the node unless it is listed already, the status is set, true returned.
store_video_replica_update(t) ==
    /\ calls[t].pc = "update"
    /\ LET video_cid == calls[t].video_cid
           node_id == calls[t].node_id
           video == videos[video_cid]
           node == nodes[node_id]
           listed == BagIn(node_id, video.available_on_network)
           avail == IF listed THEN video.available_on_network
                    ELSE ListAppend(video.available_on_network, node_id)
           used == IF listed THEN node.storage_used
                   ELSE node.storage_used + video.original_size_bytes
           status == IF ListLen(avail) >= video.replication_factor
                     THEN "REPLICATED" ELSE video.storage_status
       IN
       /\ videos' = [videos EXCEPT ![video_cid] =
                        [video EXCEPT !.available_on_network = avail,
                                      !.storage_status = status]]
       /\ nodes' = [nodes EXCEPT ![node_id].storage_used = used]
       /\ ret' = Ret("store_video_replica", video_cid, node_id, 0, "true",
                     None, None, None)
    /\ calls' = [calls EXCEPT ![t] = Idle]
    /\ UNCHANGED <<proofs, tx>>

StoreCheck ==
    \E t \in Callers, c \in StoreCids, n \in StoreNodes \cup {"n9"} :
        store_video_replica_check(t, c, n)

StoreUpdate ==
    \E t \in Callers : store_video_replica_update(t)

NextStore ==
    \/ StoreCheck
    \/ StoreUpdate

SpecStore == InitStore /\ [][NextStore]_vars

(***************************************************************************)
(* mine_block one step at a time.  The call keeps its local variables in   *)
(* calls.mine; between two of its steps other callers register nodes,      *)
(* upload, store, transcode and take nodes offline.  video_metadata is a   *)
(* reference: get_video_metadata hands out the object the registry holds,  *)
(* so the call reads what store_video_replica and transcode_video wrote    *)
(* into that object, until upload_video binds the cid to a new object and  *)
(* the call is left with the old one.                                      *)
(***************************************************************************)
MineNodes == {"n1"}
MineCapacities == {-1, 1}
MineDurations == {0, 600}

\* DynamicRewardConfig(creator_percentage=..., miner_percentage=...,
\* viewer_percentage=..., platform_percentage=...): the dataclass
\* constructor stores its arguments.
NewDynamicRewardConfig(creator_percentage, miner_percentage, viewer_percentage, platform_percentage) ==
    [DynamicRewardConfig EXCEPT !.creator_percentage = creator_percentage,
                                !.miner_percentage = miner_percentage,
                                !.viewer_percentage = viewer_percentage,
                                !.platform_percentage = platform_percentage]

MineConfigs ==
    {DynamicRewardConfig,
     NewDynamicRewardConfig(40 * PCT, 35 * PCT, 15 * PCT, 5 * PCT)}

PendingTransfer(tx_id, amount) ==
    Transaction(tx_id, Member(TransactionType, "INVESTMENT"), "sender",
                "receiver", "creator", amount, NoValue, NoValue, NoValue,
                NoValue, NoValue, 1, 21000)

PendingLists ==
    {<<>>, <<PendingTransfer("p1", 5 * COIN), PendingTransfer("p2", COIN)>>}

\* The reference to the object the registry holds under the call's cid.
Live == [live |-> TRUE]

\* The local variables of a mine_block call.  validated is the record of
\* the video as the validation step saw it.
MineFrame(pc, video_cid, pending_transactions, reward_config) ==
    [pc |-> pc, video_cid |-> video_cid, miner_address |-> "miner",
     creator_id |-> "creator", pending_transactions |-> pending_transactions,
     reward_config |-> reward_config, raised |-> "",
     validation_result |-> None, validated |-> None, video_metadata |-> None,
     storage_proof |-> None, block_reward_amount |-> 0, block |-> None]

\* The object the call's video_metadata refers to.
Deref(f) ==
    IF f.video_metadata = Live THEN videos[f.video_cid] ELSE f.video_metadata

InitMine ==
    /\ videos = << >>
    /\ nodes = << >>
    /\ proofs = << >>
    /\ tx = None
    /\ calls = [mine |-> MineFrame("idle", NoArg, <<>>, DynamicRewardConfig)]
    /\ ret = [op |-> "init", cid |-> NoArg, node |-> NoArg, min_replicas |-> 0,
              result |-> "returned", validation |-> None, proof |-> None,
              block |-> None, again |-> FALSE]

\* Step 1: validation; an invalid result raises ValidationError.
mine_block_validate_lenient(f) ==
    LET validation_result ==
            validate_video_storage(f.video_cid, f.miner_address, 1)
    IN [f EXCEPT !.pc = "FETCHING",
                 !.validation_result = validation_result,
                 !.validated = get_video_metadata(f.video_cid)]

mine_block_validate(f) ==
    LET validation_result ==
            validate_video_storage(f.video_cid, f.miner_address, 1)
    IN
    IF ~validation_result.is_valid THEN
        [f EXCEPT !.pc = "FAILED", !.raised = "ValidationError"]
    ELSE
        [f EXCEPT !.pc = "FETCHING",
                  !.validation_result = validation_result,
                  !.validated = get_video_metadata(f.video_cid)]

\* Step 2: the metadata is read from the registry again.
mine_block_fetch(f) ==
    IF get_video_metadata(f.video_cid) = None THEN
        [f EXCEPT !.pc = "FAILED", !.raised = "MiningError"]
    ELSE
        [f EXCEPT !.pc = "PROVING", !.video_metadata = Live]

\* Step 3: the storage proof.
mine_block_prove(f) ==
    [f EXCEPT !.pc = "REWARDING",
              !.storage_proof =
                  create_storage_proof(f.video_cid, f.miner_address,
                                       f.validation_result, Deref(f), "u1")]

\* Step 4: the dynamic reward.
mine_block_reward(f) ==
    [f EXCEPT !.pc = "ASSEMBLING",
              !.block_reward_amount =
                  calculate_dynamic_reward(Deref(f), f.validation_result,
                                           f.reward_config)]

\* Steps 5 and 6: the storage proof transaction, the list of transactions
\* and the block with the proof attached.
mine_block_assemble_proof_last(f) ==
    LET storage_proof_tx ==
            Transaction("t1", Member(TransactionType, "STORAGE_PROOF"),
                        f.miner_address, f.creator_id, f.creator_id, 0,
                        f.video_cid, Deref(f).duration_seconds,
                        Deref(f).original_size_bytes,
                        f.storage_proof.proof_hash,
                        hash_public_key(f.miner_address), 1, 100000)
        all_transactions == f.pending_transactions \o <<storage_proof_tx>>
        block0 == Block(1, f.miner_address, ZERO_HASH, all_transactions, 1)
        block1 == Block_add_storage_proof(block0, f.video_cid,
                                          f.storage_proof.proof_hash)
    IN [f EXCEPT !.pc = "GENERATING",
                 !.block = [block1 EXCEPT !.metadata.storage_proof =
                                StorageProof_to_dict(f.storage_proof)]]

mine_block_assemble(f) ==
    LET storage_proof_tx ==
            Transaction("t1", Member(TransactionType, "STORAGE_PROOF"),
                        f.miner_address, f.creator_id, f.creator_id, 0,
                        f.video_cid, Deref(f).duration_seconds,
                        Deref(f).original_size_bytes,
                        f.storage_proof.proof_hash,
                        hash_public_key(f.miner_address), 1, 100000)
        all_transactions == <<storage_proof_tx>> \o f.pending_transactions
        block0 == Block(1, f.miner_address, ZERO_HASH, all_transactions, 1)
        block1 == Block_add_storage_proof(block0, f.video_cid,
                                          f.storage_proof.proof_hash)
    IN [f EXCEPT !.pc = "GENERATING",
                 !.block = [block1 EXCEPT !.metadata.storage_proof =
                                StorageProof_to_dict(f.storage_proof)]]

\* Step 7: the block reward; percentages that are off raise ValueError.
mine_block_generate(f) ==
    LET block == Block_generate_reward(
                     f.block, f.block_reward_amount, f.creator_id,
                     f.reward_config.creator_percentage,
                     f.reward_config.miner_percentage,
                     f.reward_config.viewer_percentage,
                     f.reward_config.platform_percentage,
                     f.miner_address, PLATFORM_ADDRESS)
    IN
    IF block.block_reward = None THEN
        [f EXCEPT !.pc = "FAILED", !.raised = "ValueError"]
    ELSE
        [f EXCEPT !.pc = "COMMITTING", !.block = block]

\* Step 8: the block hash, and the return of the triple.
mine_block_commit(f) ==
    [f EXCEPT !.pc = "COMMITTED", !.block = Block_compute_block_hash(f.block)]

\* The call moves from frame calls.mine to frame g; when g is the end of
\* the call the caller gets the triple or the exception.
Advance(g) ==
    /\ calls' = [calls EXCEPT !.mine = g]
    /\ ret' = IF g.pc = "COMMITTED" THEN
                  Ret("mine_block", g.video_cid, NoArg, 1, "returned",
                      g.validation_result, g.storage_proof, g.block)
              ELSE IF g.pc = "FAILED" THEN
                  Ret("mine_block", g.video_cid, NoArg, 1, g.raised,
                      None, None, None)
              ELSE ret
    /\ UNCHANGED <<network, tx>>

\* A miner calls mine_block: the arguments are bound, no other call of
\* mine_block is running.
MineStart ==
    /\ calls.mine.pc \in {"idle", "COMMITTED", "FAILED"}
    /\ \E c \in Cids, p \in PendingLists, cfg \in MineConfigs :
          calls' = [calls EXCEPT !.mine = MineFrame("VALIDATING", c, p, cfg)]
    /\ UNCHANGED <<network, ret, tx>>

MineValidate ==
    /\ calls.mine.pc = "VALIDATING"
    /\ Advance(mine_block_validate(calls.mine))

MineFetch ==
    /\ calls.mine.pc = "FETCHING"
    /\ Advance(mine_block_fetch(calls.mine))

MineProve ==
    /\ calls.mine.pc = "PROVING"
    /\ Advance(mine_block_prove(calls.mine))

MineReward ==
    /\ calls.mine.pc = "REWARDING"
    /\ Advance(mine_block_reward(calls.mine))

MineAssemble ==
    /\ calls.mine.pc = "ASSEMBLING"
    /\ Advance(mine_block_assemble(calls.mine))

MineGenerate ==
    /\ calls.mine.pc = "GENERATING"
    /\ Advance(mine_block_generate(calls.mine))

MineCommit ==
    /\ calls.mine.pc = "COMMITTING"
    /\ Advance(mine_block_commit(calls.mine))

\* The other callers.
ConcurrentRegisterNode ==
    \E n \in MineNodes, c \in MineCapacities :
        register_node(n, "miner", "us-west", c, 80) /\ UNCHANGED <<tx, calls>>

\* upload_video binds the cid to a new object: a call that holds the old
\* one keeps it as it is now.
ConcurrentUploadVideo ==
    \E c \in Cids, d \in MineDurations :
        /\ upload_video(c, "creator", "title", d, 1)
        /\ calls' = IF calls.mine.video_metadata = Live /\ calls.mine.video_cid = c
                    THEN [calls EXCEPT !.mine.video_metadata = videos[c]]
                    ELSE calls
        /\ UNCHANGED tx

ConcurrentStoreVideoReplica ==
    \E c \in Cids, n \in MineNodes :
        store_video_replica(c, n) /\ UNCHANGED <<tx, calls>>

ConcurrentTranscodeVideo ==
    \E c \in Cids, p \in ProfileLists :
        transcode_video(c, p) /\ UNCHANGED <<tx, calls>>

ConcurrentOfflineNode ==
    \E n \in MineNodes : offline_node(n) /\ UNCHANGED <<tx, calls>>

NextMine ==
    \/ MineStart
    \/ MineValidate
    \/ MineFetch
    \/ MineProve
    \/ MineReward
    \/ MineAssemble
    \/ MineGenerate
    \/ MineCommit
    \/ ConcurrentRegisterNode
    \/ ConcurrentUploadVideo
    \/ ConcurrentStoreVideoReplica
    \/ ConcurrentTranscodeVideo
    \/ ConcurrentOfflineNode

SpecMine == InitMine /\ [][NextMine]_vars

(***************************************************************************)
(* Helpers of the properties.                                              *)
(***************************************************************************)
\* The nodes that hold a replica of video cid and are online now.
OnlineHolders(cid) ==
    {n \in BagToSet(videos[cid].available_on_network) :
        n \in DOMAIN nodes /\ nodes[n].is_online}

\* The step just taken was a call of operation op.
Called(op) == ret'.op = op

(***************************************************************************)
(* C1.  Whenever mine_block returns a triple, its validation result is     *)
(* valid with at least one replica found and at least one transcoding      *)
(* format, and its proof is valid; no block is returned for a video that   *)
(* validate_video_storage with min_replicas = 1 reports invalid.  (The     *)
(* registry a mining attempt leaves behind is the one it validated, so the *)
(* report is re-read from the state after the call.)                       *)
(***************************************************************************)
C1_MiningGate ==
    ret.op = "mine_block" =>
        /\ ret.result = "returned" =>
                /\ ret.validation.is_valid
                /\ ret.validation.replicas_found >= 1
                /\ Len(ret.validation.transcoding_formats) >= 1
                /\ ret.proof.is_valid
                /\ ret.block # None
        /\ \A v \in Miners :
                ~validate_video_storage(ret.cid, v, 1).is_valid =>
                    ret.result # "returned" /\ ret.block = None

C1_Witness ==
    /\ ret.op = "mine_block"
    /\ ret.result = "returned"
    /\ ret.block # None
    /\ ret.validation.replicas_found >= 2

(***************************************************************************)
(* C2.  When validation fails inside mine_block the attempt ends with      *)
(* ValidationError, hands back no block and no proof, and leaves the       *)
(* videos, nodes and proofs of the network as they were; every mining      *)
(* attempt that fails hands back no block, hence no reward.                *)
(***************************************************************************)
C2_FailedMiningLeavesNothing ==
    [][Called("mine_block") =>
        /\ (\A v \in Miners :
                ~validate_video_storage(ret'.cid, v, 1).is_valid =>
                    /\ ret'.result = "ValidationError"
                    /\ ret'.block = None
                    /\ ret'.proof = None
                    /\ UNCHANGED network)
        /\ (ret'.result # "returned" =>
                /\ ret'.block = None
                /\ ret'.proof = None
                /\ UNCHANGED network)]_vars

\* A mining attempt on a registered, transcoded video whose replicas are
\* all offline has failed.
C2_Witness ==
    /\ ret.op = "mine_block"
    /\ ret.result = "ValidationError"
    /\ ret.cid \in DOMAIN videos
    /\ videos[ret.cid].transcoded_profiles # <<>>
    /\ ListLen(videos[ret.cid].available_on_network) >= 1

(***************************************************************************)
(* C3.  validate_video_storage reports is_valid = true if and only if the  *)
(* cid is registered, the number of its replica nodes that are online is   *)
(* at least min_replicas, and it has at least one transcoding profile.     *)
(***************************************************************************)
C3_ValidationIff ==
    ret.op = "validate_video_storage" =>
        (ret.validation.is_valid <=>
            /\ ret.cid \in DOMAIN videos
            /\ Cardinality(OnlineHolders(ret.cid)) >= ret.min_replicas
            /\ Len(videos[ret.cid].transcoded_profiles) >= 1)

\* Validation has refused a video with enough online replicas and no profile.
C3_Witness ==
    /\ ret.op = "validate_video_storage"
    /\ ~ret.validation.is_valid
    /\ ret.cid \in DOMAIN videos
    /\ ret.min_replicas >= 1
    /\ Cardinality(OnlineHolders(ret.cid)) >= ret.min_replicas
    /\ videos[ret.cid].transcoded_profiles = <<>>

(***************************************************************************)
(* C4.  Every node keeps storage_used <= storage_capacity, and             *)
(* store_video_replica returns false and changes nothing when              *)
(* node.storage_used + video.original_size_bytes exceeds the capacity.     *)
(***************************************************************************)
C4_CapacityRespected ==
    /\ [](\A n \in DOMAIN nodes :
            nodes[n].storage_used <= nodes[n].storage_capacity)
    /\ [][(/\ Called("store_video_replica")
           /\ ret'.cid \in DOMAIN videos
           /\ ret'.node \in DOMAIN nodes
           /\ nodes[ret'.node].storage_used
                + videos[ret'.cid].original_size_bytes
                    > nodes[ret'.node].storage_capacity)
          => ret'.result = "false" /\ UNCHANGED network]_vars

\* A replica has been refused by a full node.
C4_Witness ==
    /\ ret.op = "store_video_replica"
    /\ ret.result = "false"
    /\ ret.cid \in DOMAIN videos
    /\ ret.node \in DOMAIN nodes
    /\ nodes[ret.node].storage_used = nodes[ret.node].storage_capacity
    /\ ~BagIn(ret.node, videos[ret.cid].available_on_network)

(***************************************************************************)
(* C5.  The storage_status of a registered video never moves backwards in  *)
(* the order UNKNOWN < PENDING < STORED < REPLICATED < VERIFIED.  The       *)
(* formula states it of every step but a call of upload_video (which       *)
(* replaces the record), so it asks less than the claim does.              *)
(***************************************************************************)
C5_StatusNeverRegresses ==
    [][~Called("upload_video") =>
        \A c \in DOMAIN videos :
            StatusRank(videos'[c].storage_status)
                >= StatusRank(videos[c].storage_status)]_vars

(***************************************************************************)
(* C6.  A second store_video_replica(cid, node) right after the first      *)
(* leaves storage_used, available_on_network and storage_status as the     *)
(* first call left them: the node is listed once, its size counted once.   *)
(***************************************************************************)
C6_StoreIdempotent ==
    [][(Called("store_video_replica") /\ ret'.again) =>
        /\ UNCHANGED <<videos, nodes>>
        /\ (ret'.cid \in DOMAIN videos' =>
                CopiesIn(ret'.node, videos'[ret'.cid].available_on_network) <= 1)
      ]_vars

\* The second of two calls in a row has passed the capacity check.
C6_Witness ==
    /\ ret.op = "store_video_replica"
    /\ ret.again
    /\ ret.result = "true"
    /\ CopiesIn(ret.node, videos[ret.cid].available_on_network) = 1

(***************************************************************************)
(* C7.  As claimed: a node that is offline is offline in every later       *)
(* state, whatever operation is applied, register_node included.           *)
(***************************************************************************)
C7_OfflineForever ==
    [][\A n \in DOMAIN nodes :
        ~nodes[n].is_online => ~nodes'[n].is_online]_vars

(***************************************************************************)
(* C7, amended.  A node that is offline stays offline through every        *)
(* operation but register_node on its own id, which replaces the record    *)
(* by a fresh, online one.                                                 *)
(***************************************************************************)
C7_OfflineUntilReregistered ==
    [][\A n \in DOMAIN nodes :
        ~nodes[n].is_online =>
            IF Called("register_node") /\ ret'.node = n
            THEN nodes'[n].is_online
            ELSE ~nodes'[n].is_online]_vars

\* A replica has been stored on a node that was offline and still is.
C7_Witness ==
    /\ ret.op = "store_video_replica"
    /\ ret.result = "true"
    /\ ~nodes[ret.node].is_online

(***************************************************************************)
(* C8.  verify_video_storage(cid, min_replicas) returns true and sets      *)
(* storage_status to VERIFIED exactly when cid is registered, at least     *)
(* min_replicas of its replica nodes are online at the call and            *)
(* transcoding_status is COMPLETED; otherwise it returns false and leaves  *)
(* the network unchanged.                                                  *)
(***************************************************************************)
C8_VerifyExactly ==
    [][Called("verify_video_storage") =>
        LET c == ret'.cid
            ok == /\ c \in DOMAIN videos
                  /\ Cardinality(OnlineHolders(c)) >= ret'.min_replicas
                  /\ videos[c].transcoding_status = "COMPLETED"
        IN
        IF ok
        THEN /\ ret'.result = "true"
             /\ videos'[c].storage_status = "VERIFIED"
        ELSE /\ ret'.result = "false"
             /\ UNCHANGED network]_vars

\* A verification has been refused for a transcoded video because too few
\* of its replicas are online.
C8_Witness ==
    /\ ret.op = "verify_video_storage"
    /\ ret.result = "false"
    /\ ret.cid \in DOMAIN videos
    /\ videos[ret.cid].transcoding_status = "COMPLETED"
    /\ ListLen(videos[ret.cid].available_on_network) >= ret.min_replicas
    /\ Cardinality(OnlineHolders(ret.cid)) < ret.min_replicas

(***************************************************************************)
(* C9.  A VERIFIED video stays VERIFIED when offline_node is applied to    *)
(* its replica nodes and when a later verify_video_storage returns false.  *)
(***************************************************************************)
C9_VerifiedSurvivesOffline ==
    [][(\/ Called("offline_node")
        \/ Called("verify_video_storage") /\ ret'.result = "false")
       => \A c \in DOMAIN videos :
            videos[c].storage_status = "VERIFIED" =>
                videos'[c].storage_status = "VERIFIED"]_vars

\* A VERIFIED video with replicas, all of them offline, has just failed a
\* verification.
C9_Witness ==
    /\ ret.op = "verify_video_storage"
    /\ ret.result = "false"
    /\ ret.cid \in DOMAIN videos
    /\ videos[ret.cid].storage_status = "VERIFIED"
    /\ ListLen(videos[ret.cid].available_on_network) >= 1
    /\ OnlineHolders(ret.cid) = {}

(***************************************************************************)
(* C10.  Validation counts online nodes only: once every node holding a    *)
(* replica of a video is offline, validate_video_storage with              *)
(* min_replicas = 1 reports is_valid = false with replicas_found = 0 and   *)
(* mine_block raises ValidationError, whatever the profiles and the        *)
(* storage_status of the video.                                            *)
(***************************************************************************)
AllHoldersOffline(cid) ==
    /\ cid \in DOMAIN videos
    /\ ListLen(videos[cid].available_on_network) >= 1
    /\ OnlineHolders(cid) = {}

C10_OfflineReplicasDoNotCount ==
    AllHoldersOffline(ret.cid) =>
        /\ (ret.op = "validate_video_storage" /\ ret.min_replicas = 1) =>
                /\ ~ret.validation.is_valid
                /\ ret.validation.replicas_found = 0
        /\ ret.op = "mine_block" =>
                /\ ret.result = "ValidationError"
                /\ ret.block = None

\* A mining attempt has failed on a VERIFIED, transcoded video whose
\* replica nodes are all offline.
C10_Witness ==
    /\ AllHoldersOffline(ret.cid)
    /\ ret.op = "mine_block"
    /\ ret.result = "ValidationError"
    /\ videos[ret.cid].storage_status = "VERIFIED"
    /\ videos[ret.cid].transcoded_profiles # <<>>

(***************************************************************************)
(* C11.  validate_video_storage is a pure read: the video records, the     *)
(* node records and the proof collection are the same after the call as    *)
(* before it, whether the result is valid or invalid.                      *)
(***************************************************************************)
C11_ValidationIsPureRead ==
    [][Called("validate_video_storage") => UNCHANGED network]_vars

\* A validation has found a video valid whose record is not VERIFIED.
C11_Witness ==
    /\ ret.op = "validate_video_storage"
    /\ ret.validation.is_valid
    /\ videos[ret.cid].storage_status # "VERIFIED"
    /\ ret.validation.replicas_found >= 1

(***************************************************************************)
(* C12.  store_video_replica, transcode_video and offline_node called with *)
(* a cid or a node id that is not registered return false, raise nothing,  *)
(* and leave every video record and every node record as it was.           *)
(***************************************************************************)
C12_UnknownIdsReturnFalse ==
    [][/\ ( /\ Called("store_video_replica")
            /\ \/ ret'.cid \notin DOMAIN videos
               \/ ret'.node \notin DOMAIN nodes )
          => (ret'.result = "false" /\ UNCHANGED network)
       /\ (Called("transcode_video") /\ ret'.cid \notin DOMAIN videos)
          => (ret'.result = "false" /\ UNCHANGED network)
       /\ (Called("offline_node") /\ ret'.node \notin DOMAIN nodes)
          => (ret'.result = "false" /\ UNCHANGED network)]_vars

\* transcode_video has been called with an unknown cid while nodes are
\* registered.
C12_Witness ==
    /\ ret.op = "transcode_video"
    /\ ret.cid \notin DOMAIN videos
    /\ ret.result = "false"
    /\ nodes # << >>

(***************************************************************************)
(* C13 as stated.  calculate_dynamic_reward returns a reward r with        *)
(* min_reward_per_block <= r <= max_reward_per_block for every             *)
(* non-negative duration, profile count and replica count and for every    *)
(* configuration of weights and clamp bounds.                              *)
(***************************************************************************)
C13_RewardWithinBounds ==
    ret.op = "calculate_dynamic_reward" =>
        /\ ret.config.min_reward_per_block <= ret.result
        /\ ret.result <= ret.config.max_reward_per_block

(***************************************************************************)
(* C13, amended.  For every non-negative duration, profile count and       *)
(* replica count and every configuration of weights: when                  *)
(* min_reward_per_block <= max_reward_per_block the reward r satisfies     *)
(* min_reward_per_block <= r <= max_reward_per_block; when the minimum is  *)
(* above the maximum the reward is the minimum.                            *)
(***************************************************************************)
C13_RewardWithinOrderedBounds ==
    ret.op = "calculate_dynamic_reward" =>
        LET lo == ret.config.min_reward_per_block
            hi == ret.config.max_reward_per_block
        IN /\ lo <= hi => (lo <= ret.result /\ ret.result <= hi)
           /\ lo > hi => ret.result = lo

\* A reward that the weights put above the maximum has been capped at it,
\* with no replica found.
C13_Witness ==
    /\ ret.op = "calculate_dynamic_reward"
    /\ ret.config.min_reward_per_block <= ret.config.max_reward_per_block
    /\ ret.video_metadata.duration_seconds = 600
    /\ ret.validation_result.replicas_found = 0
    /\ ret.config.reward_per_second = 1
    /\ ret.result = ret.config.max_reward_per_block

(***************************************************************************)
(* C14.  The block reward of a mined block is                              *)
(* clamp(base_subsidy + duration * reward_per_second                       *)
(*       + profiles * reward_per_profile                                   *)
(*       + max(0, replicas - 1) * reward_per_replica, min, max)            *)
(* under the default configuration (50, 0.1, 5, 2, clamped to 10..1000);   *)
(* a 600-second video with 3 profiles and 3 online replicas yields 129     *)
(* coins, split as creator 51.6, miner 45.15, viewer 19.35, platform 12.9. *)
(***************************************************************************)
C14_RewardFormulaAndScenario ==
    (ret.op = "mine_block" /\ ret.result = "returned") =>
        LET duration == videos[ret.cid].duration_seconds
            profiles == Len(ret.validation.transcoding_formats)
            replicas == ret.validation.replicas_found
            extra == IF replicas > 1 THEN replicas - 1 ELSE 0
            raw == 50 * COIN + (duration * COIN) \div 10 + profiles * 5 * COIN
                   + extra * 2 * COIN
            expected == IF raw > 1000 * COIN THEN 1000 * COIN
                        ELSE IF raw < 10 * COIN THEN 10 * COIN ELSE raw
            reward == ret.block.block_reward
            amount == [i \in 1..4 |-> reward.beneficiaries[i].amount]
            role == [i \in 1..4 |-> reward.beneficiaries[i].role]
        IN /\ reward.total_reward = expected
           /\ (duration = 600 /\ profiles = 3 /\ replicas = 3) =>
                /\ reward.total_reward = 129 * COIN
                /\ role = <<"creator", "miner", "viewer", "platform">>
                /\ amount = << (516 * COIN) \div 10, (4515 * COIN) \div 100,
                               (1935 * COIN) \div 100, (129 * COIN) \div 10 >>

\* A block has been mined for a 600-second video with 3 profiles and 3
\* online replicas.
C14_Witness ==
    /\ ret.op = "mine_block"
    /\ ret.result = "returned"
    /\ videos[ret.cid].duration_seconds = 600
    /\ Len(ret.validation.transcoding_formats) = 3
    /\ ret.validation.replicas_found = 3

\* The sum of the percentages of the last reward-function call.
SumOfPercentages ==
    ret.creator_percentage + ret.miner_percentage + ret.viewer_percentage
    + ret.platform_percentage

\* The sum of the four amounts calculate_reward_split returned.
SumOfAmounts ==
    ret.result.creator + ret.result.miner + ret.result.viewer
    + ret.result.platform

\* 10^-6 coin per beneficiary, four beneficiaries, in units of 10^-8 coin.
SPLIT_TOLERANCE == 4 * 100

(***************************************************************************)
(* C15.  Conservation: for every total_reward >= 0 and every percentage    *)
(* quadruple calculate_reward_split accepts, the four amounts sum to       *)
(* total_reward within 10^-6 per beneficiary times the four beneficiaries. *)
(***************************************************************************)
C15_SplitConservesTotal ==
    (ret.op = "calculate_reward_split" /\ ret.result # Raise("ValueError")) =>
        Abs(SumOfAmounts - ret.total_reward) <= SPLIT_TOLERANCE

(***************************************************************************)
(* C16.  calculate_reward_split fails, returning no distribution, whenever *)
(* the four percentages sum to more than 0.01 away from 100, and           *)
(* validate_percentages returns false for the same inputs.                 *)
(***************************************************************************)
C16_OffSumRejected ==
    /\ ret.op = "calculate_reward_split" =>
          (Abs(SumOfPercentages - 100 * PCT) > PCT \div 100
              => ret.result = Raise("ValueError"))
    /\ ret.op = "validate_percentages" =>
          (Abs(SumOfPercentages - 100 * PCT) > PCT \div 100
              => ret.result = "false")

\* calculate_reward_split has been called with percentages that sum to
\* 100.02.
C16_Witness ==
    /\ ret.op = "calculate_reward_split"
    /\ SumOfPercentages = 100 * PCT + 4
    /\ ret.total_reward > 0
    /\ ret.result = Raise("ValueError")

(***************************************************************************)
(* C17.  calculate_reward_split fails on exactly the quadruples for which  *)
(* validate_percentages returns false, a quadruple with a negative         *)
(* percentage that sums to 100 included, so that no beneficiary is ever    *)
(* assigned a negative amount.                                             *)
(***************************************************************************)
C17_NegativePercentageRejected ==
    ret.op = "calculate_reward_split" =>
        /\ (ret.result = Raise("ValueError"))
             <=> ~validate_percentages(ret.creator_percentage,
                                       ret.miner_percentage,
                                       ret.viewer_percentage,
                                       ret.platform_percentage)
        /\ ret.result # Raise("ValueError") =>
             /\ ret.result.creator >= 0
             /\ ret.result.miner >= 0
             /\ ret.result.viewer >= 0
             /\ ret.result.platform >= 0

(***************************************************************************)
(* C18.  Changing a transaction's status, block_hash or block_number never *)
(* changes its hash: compute_tx_hash gives the same value before and after *)
(* the change.                                                             *)
(***************************************************************************)
C18_LifecycleKeepsHash ==
    [][(Called("set_status") \/ Called("set_block_hash")
        \/ Called("set_block_number"))
       => compute_tx_hash(tx')._tx_hash = compute_tx_hash(tx)._tx_hash]_vars

(***************************************************************************)
(* C19.  Transaction.from_dict(tx.to_dict(include_hash=True)) has the same *)
(* value as tx in every field, tx_type and status included, and the same   *)
(* tx_hash as tx; its hash is recomputed from its fields, not taken from   *)
(* the 'tx_hash' entry of the dictionary.                                  *)
(***************************************************************************)
C19_RoundTripPreserves ==
    ret.op = "round_trip" =>
        /\ ret.result # Raise("KeyError")
        /\ \A f \in DOMAIN tx \ {"_tx_hash"} : ret.result[f] = tx[f]
        /\ ret.result._tx_hash = NoValue
        /\ tx_hash(ret.result)._tx_hash = tx_hash(tx)._tx_hash

(***************************************************************************)
(* C20.  Transaction.from_dict raises, constructing no Transaction, on     *)
(* every dictionary whose 'tx_type' is not one of the seven                *)
(* TransactionType tags or whose 'status' is not one of PENDING,           *)
(* CONFIRMED, FINALIZED, FAILED.                                           *)
(***************************************************************************)
C20_UnknownTagRejected ==
    ( /\ ret.op = "from_dict"
      /\ \/ ret.payload.tx_type \notin
                {"VIDEO_UPLOAD", "INVESTMENT", "DISTRIBUTION", "STORAGE_PROOF",
                 "INTEREST_PAYOUT", "WITHDRAWAL", "PLATFORM_FEE"}
         \/ ret.payload.status \notin
                {"PENDING", "CONFIRMED", "FINALIZED", "FAILED"} )
    => ret.result = Raise("KeyError")

\* from_dict has been handed a dictionary with a valid type tag and the
\* status tag "pending".
C20_Witness ==
    /\ ret.op = "from_dict"
    /\ ret.payload.tx_type = "PLATFORM_FEE"
    /\ ret.payload.status = "pending"
    /\ ret.result = Raise("KeyError")

(***************************************************************************)
(* C26.  validate_video_storage checks existence, then the replica count,  *)
(* then the transcoding: an unknown cid is reported as not found with      *)
(* replicas_found = 0; a registered video with too few online replicas is  *)
(* reported as 'Insufficient replicas' with replicas_found the online      *)
(* count, whether or not it has profiles; every invalid result has         *)
(* transcoding_complete = false and no format.                             *)
(***************************************************************************)
C26_ValidationOrder ==
    ret.op = "validate_video_storage" =>
        LET v == ret.validation IN
        /\ ret.cid \notin DOMAIN videos =>
              /\ ~v.is_valid
              /\ v.error_message = "not found"
              /\ v.replicas_found = 0
        /\ ( /\ ret.cid \in DOMAIN videos
             /\ Cardinality(OnlineHolders(ret.cid)) < ret.min_replicas ) =>
              /\ ~v.is_valid
              /\ v.error_message = "Insufficient replicas"
              /\ v.replicas_found = Cardinality(OnlineHolders(ret.cid))
        /\ ~v.is_valid =>
              (~v.transcoding_complete /\ v.transcoding_formats = <<>>)

\* Validation has refused a registered video that has no profile and whose
\* only replica is on an offline node.
C26_Witness ==
    /\ ret.op = "validate_video_storage"
    /\ ret.cid \in DOMAIN videos
    /\ videos[ret.cid].transcoded_profiles = <<>>
    /\ ListLen(videos[ret.cid].available_on_network) = 1
    /\ OnlineHolders(ret.cid) = {}
    /\ ret.min_replicas = 1
    /\ ret.validation.error_message = "Insufficient replicas"

(***************************************************************************)
(* C28.  The StorageProof of a mining attempt embeds the findings of that  *)
(* attempt's validation: storage_replication = replicas_found, is_valid =  *)
(* the validation's is_valid, the format names of transcoding_profiles are *)
(* the validation's transcoding_formats in order, and proof_hash is the    *)
(* SHA-256 of video_cid, miner_address and proof_nonce.                    *)
(***************************************************************************)
C28_ProofEmbedsValidation ==
    (ret.op = "mine_block" /\ ret.result = "returned") =>
        LET proof == ret.proof
            v == ret.validation
        IN /\ proof.storage_replication = v.replicas_found
           /\ proof.is_valid = v.is_valid
           /\ [i \in DOMAIN proof.transcoding_profiles |->
                 proof.transcoding_profiles[i].format_name]
              = v.transcoding_formats
           /\ proof.video_cid = ret.cid
           /\ proof.proof_hash
              = Sha256(<<ret.cid, proof.miner_address, proof.proof_nonce>>)

\* A block has been mined on two online replicas and three formats.
C28_Witness ==
    /\ ret.op = "mine_block"
    /\ ret.result = "returned"
    /\ ret.validation.replicas_found = 2
    /\ Len(ret.proof.transcoding_profiles) = 3

(***************************************************************************)
(* C29.  For every proof returned by mine_block, the number of entries of  *)
(* proof.storage_nodes, and the 'storage_nodes' count of proof.to_dict(),  *)
(* equals proof.storage_replication, the number of online replica nodes    *)
(* validation found.                                                       *)
(***************************************************************************)
C29_ProofListsStorageNodes ==
    (ret.op = "mine_block" /\ ret.result = "returned") =>
        /\ Len(ret.proof.storage_nodes) = ret.proof.storage_replication
        /\ StorageProof_to_dict(ret.proof).storage_nodes
           = ret.proof.storage_replication

\* mine_block has just returned a block.
Mined(r) == r.op = "mine_block" /\ r.result = "returned"

(***************************************************************************)
(* C30.  Over successive successful mine_block calls by the same miner,    *)
(* the storage-proof transactions with that miner as sender carry strictly *)
(* increasing nonces.                                                      *)
(***************************************************************************)
C30_NonceIncreases ==
    [][( /\ Mined(ret)
         /\ Mined(ret')
         /\ ret'.block.transactions[1].sender_public_key_hash
            = ret.block.transactions[1].sender_public_key_hash )
       => ret'.block.transactions[1].nonce > ret.block.transactions[1].nonce]_vars

\* The total size of the replicas the video records list on node n.
SizeRecordedOn(n) ==
    LET RECURSIVE Sum(_)
        Sum(S) == IF S = {} THEN 0
                  ELSE LET c == CHOOSE x \in S : TRUE
                       IN CopiesIn(n, videos[c].available_on_network)
                              * videos[c].original_size_bytes
                          + Sum(S \ {c})
    IN Sum(DOMAIN videos)

(***************************************************************************)
(* C24.  When store_video_replica calls that target the same node          *)
(* interleave at the granularity of capacity check and update, no update   *)
(* is lost: once no call is in flight, the node has storage_used <=        *)
(* storage_capacity and storage_used equal to the total size of the        *)
(* replicas recorded on it.                                                *)
(***************************************************************************)
C24_InterleavedStoresKeepCapacity ==
    (\A t \in Callers : calls[t].pc = "idle") =>
        \A n \in DOMAIN nodes :
            /\ nodes[n].storage_used <= nodes[n].storage_capacity
            /\ nodes[n].storage_used = SizeRecordedOn(n)

\* The step of mine_block that follows the step pc; a call that has ended
\* is followed by the first step of the next call.
NextStage(pc) ==
    CASE pc = "VALIDATING" -> "FETCHING"
      [] pc = "FETCHING" -> "PROVING"
      [] pc = "PROVING" -> "REWARDING"
      [] pc = "REWARDING" -> "ASSEMBLING"
      [] pc = "ASSEMBLING" -> "GENERATING"
      [] pc = "GENERATING" -> "COMMITTING"
      [] pc = "COMMITTING" -> "COMMITTED"
      [] OTHER -> "VALIDATING"

\* What a mine_block call has built so far is built in order: proof and
\* reward on a validation that passed, the hash on a block that has the
\* proof, the proof's dictionary and the reward attached.
BuiltInOrder(f) ==
    /\ (f.storage_proof # None \/ f.block_reward_amount # 0 \/ f.block # None)
          => /\ f.validation_result # None
             /\ f.validation_result.is_valid
    /\ f.block # None => f.storage_proof # None
    /\ (f.block # None /\ f.block.block_hash # None)
          => /\ f.pc = "COMMITTED"
             /\ f.video_cid \in DOMAIN f.block.video_proofs
             /\ f.block.metadata.storage_proof # None
             /\ f.block.block_reward # None

(***************************************************************************)
(* C21.  mine_block runs its steps strictly in the order validation,       *)
(* metadata fetch, proof creation, dynamic reward, block assembly, reward  *)
(* generation, hash commit.  No proof is created and no reward calculated  *)
(* before validation has passed; a call that failed stays failed; the      *)
(* block hash is computed only after the storage proof, the block          *)
(* metadata and the block reward are attached, and nothing in the block    *)
(* changes after the hash.                                                 *)
(***************************************************************************)
C21_StagesInOrder ==
    [][LET f == calls.mine
           g == calls'.mine
       IN
       /\ BuiltInOrder(f)
       /\ BuiltInOrder(g)
       /\ g.pc # f.pc => g.pc \in {NextStage(f.pc), "FAILED"}
       /\ (f.pc = "FAILED" /\ g.pc = "FAILED")
             => /\ g.raised = f.raised
                /\ g.storage_proof = f.storage_proof
                /\ g.block = f.block
       /\ (f.pc = "COMMITTED" /\ g.pc = "COMMITTED") => g.block = f.block
       /\ (f.pc = "VALIDATING" /\ g.pc = "FETCHING")
             => /\ f.video_cid \in DOMAIN videos
                /\ Len(videos[f.video_cid].transcoded_profiles) > 0]_vars

C21_Witness ==
    /\ calls.mine.pc = "COMMITTED"
    /\ calls.mine.block.block_hash # None
    /\ calls.mine.block.block_reward # None
    /\ Len(calls.mine.block.transactions) = 3

(***************************************************************************)
(* C22.  Configuration is validated at construction: a reward              *)
(* configuration whose percentages do not sum to 100 within 0.01 is        *)
(* rejected when the object is created, so no mine_block call ever holds   *)
(* one, and register_node rejects a negative storage_capacity, so no       *)
(* registered node has one.                                                *)
(***************************************************************************)
C22_ConfigValidatedAtConstruction ==
    /\ \A n \in DOMAIN nodes : nodes[n].storage_capacity >= 0
    /\ LET config == calls.mine.reward_config
       IN Abs(config.creator_percentage + config.miner_percentage
              + config.viewer_percentage + config.platform_percentage
              - 100 * PCT) <= PERCENT_TOLERANCE

(***************************************************************************)
(* C23.  Every transaction in a block returned by mine_block is CONFIRMED  *)
(* with block_hash and block_number set to that block's, and no            *)
(* transaction has block_hash or block_number set while it is PENDING.     *)
(***************************************************************************)
C23_MinedTransactionsConfirmed ==
    calls.mine.pc = "COMMITTED" =>
        LET block == calls.mine.block IN
        \A i \in DOMAIN block.transactions :
            LET t == block.transactions[i] IN
            /\ t.status = Member(TransactionStatus, "CONFIRMED")
            /\ t.block_hash = Some(block.block_hash)
            /\ t.block_number = Some(block.block_number)
            /\ t.status = Member(TransactionStatus, "PENDING")
                  => t.block_hash = NoValue /\ t.block_number = NoValue

(***************************************************************************)
(* C25.  Mining works on one consistent snapshot of the video: when        *)
(* transcode_video, upload_video of the same cid or offline_node run       *)
(* between the validation and the later reads of the metadata, the reward  *)
(* of the committed block and the profile list of its proof are those of   *)
(* the state that was validated.                                           *)
(***************************************************************************)
C25_MinedOnValidatedSnapshot ==
    calls.mine.pc = "COMMITTED" =>
        LET f == calls.mine IN
        /\ f.storage_proof.transcoding_profiles = f.validated.transcoded_profiles
        /\ f.block.block_reward.base_subsidy =
               calculate_dynamic_reward(f.validated, f.validation_result,
                                        f.reward_config)

(***************************************************************************)
(* C27.  The transactions of a mined block are the synthetic               *)
(* STORAGE_PROOF transaction (amount 0, sender the miner, video_hash the   *)
(* cid, storage_proof the proof hash) at position 0 followed by the        *)
(* pending transactions in their order, and video_proofs maps the cid to   *)
(* the proof hash.                                                         *)
(***************************************************************************)
C27_ProofTransactionFirst ==
    calls.mine.pc = "COMMITTED" =>
        LET f == calls.mine
            txs == f.block.transactions
        IN
        /\ Len(txs) = 1 + Len(f.pending_transactions)
        /\ txs[1].tx_type = Member(TransactionType, "STORAGE_PROOF")
        /\ txs[1].amount = 0
        /\ txs[1].sender_public_key_hash = f.miner_address
        /\ txs[1].video_hash = f.video_cid
        /\ txs[1].storage_proof = f.storage_proof.proof_hash
        /\ SubSeq(txs, 2, Len(txs)) = f.pending_transactions
        /\ DOMAIN f.block.video_proofs = {f.video_cid}
        /\ f.block.video_proofs[f.video_cid] = f.storage_proof.proof_hash

C27_Witness ==
    /\ calls.mine.pc = "COMMITTED"
    /\ Len(calls.mine.pending_transactions) = 2
    /\ calls.mine.block.transactions[2].tx_id = "p1"
    /\ calls.mine.block.transactions[3].tx_id = "p2"

(***************************************************************************)
(* C31.  The creator share of a mined block is paid to the video's owner:  *)
(* in every block returned by mine_block the address of the creator        *)
(* beneficiary is the creator_id the registry records for the mined cid.   *)
(***************************************************************************)
C31_CreatorShareGoesToOwner ==
    Mined(ret) =>
        \A i \in DOMAIN ret.block.block_reward.beneficiaries :
            LET b == ret.block.block_reward.beneficiaries[i] IN
            b.role = "creator" => b.address = videos[ret.cid].creator_id

\* The sum of original_size_bytes over the registered videos whose
\* available_on_network contains node n.
SizeOfVideosOn(n) ==
    LET RECURSIVE Sum(_)
        Sum(S) == IF S = {} THEN 0
                  ELSE LET c == CHOOSE x \in S : TRUE
                       IN videos[c].original_size_bytes + Sum(S \ {c})
    IN Sum({c \in DOMAIN videos : BagIn(n, videos[c].available_on_network)})

(***************************************************************************)
(* C32.  After any sequence of Storage Network operations, register_node   *)
(* on an existing id and upload_video on an existing cid included, each    *)
(* node's storage_used equals the sum of original_size_bytes over the      *)
(* registered videos whose available_on_network contains that node.        *)
(***************************************************************************)
C32_StorageAccounting ==
    \A n \in DOMAIN nodes : nodes[n].storage_used = SizeOfVideosOn(n)

(***************************************************************************)
(* C33.  The two storage checks agree: in every reachable state and for    *)
(* every cid and min_replicas, verify_video_storage(cid, min_replicas)     *)
(* returns true if and only if validate_video_storage on the same state    *)
(* with the same arguments returns is_valid = true.                        *)
(***************************************************************************)
C33_VerifyAgreesWithValidate ==
    [][Called("verify_video_storage") =>
        (ret'.result = "true"
            <=> validate_video_storage(ret'.cid, "miner",
                                       ret'.min_replicas).is_valid)]_vars

(***************************************************************************)
(* C34.  The cached transaction hash is never stale: after any sequence    *)
(* of field assignments and tx_hash accesses, the value the tx_hash        *)
(* property returns equals the hash of the transaction's current           *)
(* hash-input fields, what compute_tx_hash() would return at that moment.  *)
(***************************************************************************)
C34_CachedHashIsCurrent ==
    tx_hash(tx)._tx_hash = compute_tx_hash(tx)._tx_hash

(***************************************************************************)
(* C35.  mine_block never writes to the Storage Network: after a           *)
(* successful mining attempt the videos, the nodes and the registry of     *)
(* proofs are what they were before the call; mining does not mark the     *)
(* video VERIFIED and does not record the proof in the registry of proofs. *)
(***************************************************************************)
C35_MiningLeavesNetworkAlone ==
    [][(Called("mine_block") /\ ret'.result = "returned") =>
        /\ videos' = videos
        /\ nodes' = nodes
        /\ proofs' = proofs
        /\ videos'[ret'.cid].storage_status = videos[ret'.cid].storage_status
        /\ ret'.cid \notin DOMAIN proofs']_vars

\* A block has been mined for a video that is not VERIFIED, and the
\* registry of proofs is empty.
C35_Witness ==
    /\ Mined(ret)
    /\ ret.block # None
    /\ videos[ret.cid].storage_status # "VERIFIED"
    /\ proofs = << >>

RegistryComplete ==
    /\ \A c \in DOMAIN videos :
          BagToSet(videos[c].available_on_network) \subseteq DOMAIN nodes
    /\ calls.mine.raised # "MiningError"

(***************************************************************************)
(* C37.  The registry only grows: no operation removes a video or a node,  *)
(* so once upload_video(cid) has been called get_video_metadata(cid)       *)
(* never returns None again, every node id in a video's                    *)
(* available_on_network is a registered node, and the MiningError branch   *)
(* of mine_block is not reached under any interleaving of Storage Network  *)
(* operations with the steps of mine_block.                                *)
(***************************************************************************)
C37_RegistryOnlyGrows ==
    [][/\ DOMAIN videos \subseteq DOMAIN videos'
       /\ DOMAIN nodes \subseteq DOMAIN nodes'
       /\ \A c \in DOMAIN videos : get_video_metadata(c)' # None
       /\ RegistryComplete
       /\ RegistryComplete']_vars

\* mine_block has read the metadata in step 2 after another caller
\* uploaded the cid again between the validation and the read.
C37_Witness ==
    /\ calls.mine.pc = "PROVING"
    /\ calls.mine.validated # videos[calls.mine.video_cid]
    /\ videos[calls.mine.video_cid].available_on_network = EmptyBag
    /\ \E n \in DOMAIN nodes : nodes[n].storage_used > 0

(***************************************************************************)
(* C38.  In every reachable state a video with storage_status VERIFIED     *)
(* has transcoding_status COMPLETED, a video with a non-empty              *)
(* transcoded_profiles list has transcoding_status COMPLETED, and a video  *)
(* with storage_status REPLICATED has at least replication_factor          *)
(* distinct node ids in available_on_network.                              *)
(***************************************************************************)
C38_StatusTranscodingConsistent ==
    \A c \in DOMAIN videos :
        LET video == videos[c] IN
        /\ video.storage_status = "VERIFIED"
              => video.transcoding_status = "COMPLETED"
        /\ video.transcoded_profiles # <<>>
              => video.transcoding_status = "COMPLETED"
        /\ video.storage_status = "REPLICATED"
              => Cardinality(BagToSet(video.available_on_network))
                    >= video.replication_factor

\* A video is REPLICATED and transcoded to three profiles.
C38_Witness ==
    \E c \in DOMAIN videos :
        /\ videos[c].storage_status = "REPLICATED"
        /\ Len(videos[c].transcoded_profiles) = 3
        /\ videos[c].transcoding_status = "COMPLETED"

(***************************************************************************)
(* C39.  Re-storing an existing replica succeeds: if                       *)
(* store_video_replica(cid, node) has returned true and no other           *)
(* operation has run since, calling store_video_replica(cid, node) again   *)
(* returns true, however much free capacity the node has left.             *)
(***************************************************************************)
C39_RestoreSucceeds ==
    [][(/\ Called("store_video_replica")
        /\ ret'.again
        /\ ret.result = "true"
        /\ \A t \in Callers : calls[t].pc = "idle"
        /\ ret' # ret)
       => ret'.result = "true"]_vars

====
